---- MODULE Spec2Model ----
(***************************************************************************)
(* A model of the ZON codec of zon-format/src/zon: ZonEncoder.encode       *)
(* (encoder.py) and ZonDecoder.decode (decoder.py).                        *)
(*                                                                         *)
(* Text is modelled character by character: a Python str is a sequence of  *)
(* one-character strings, so that packing, quoting, csv tokenising and     *)
(* number parsing are computed and not assumed to be inverse to each       *)
(* other.                                                                  *)
(*                                                                         *)
(* A Python value is a record [t, v]:                                      *)
(*   [t |-> "null",  v |-> 0]                                              *)
(*   [t |-> "bool",  v |-> 0 or 1]                                         *)
(*   [t |-> "int",   v |-> n]                                              *)
(*   [t |-> "float", v |-> q]      the float q/4 (quarters are exact in    *)
(*                                 binary floating point)                  *)
(*   [t |-> "str",   v |-> <<chars>>]                                      *)
(*   [t |-> "list",  v |-> <<values>>]                                     *)
(*   [t |-> "dict",  v |-> <<entries>>]  entries are <<key, value>> pairs  *)
(*                                 in insertion order, keys distinct       *)
(*   [t |-> "error", v |-> 0]      a raised exception                      *)
(***************************************************************************)
EXTENDS Integers, Sequences, FiniteSets, TLC

(***************************************************************************)
(* Characters                                                              *)
(***************************************************************************)
Digits == {"0", "1", "2", "3", "4", "5", "6", "7", "8", "9"}

Letters ==
  {"a", "b", "c", "d", "e", "f", "g", "h", "i", "j", "k", "l", "m",
   "n", "o", "p", "q", "r", "s", "t", "u", "v", "w", "x", "y", "z",
   "A", "B", "C", "D", "E", "F", "G", "H", "I", "J", "K", "L", "M",
   "N", "O", "P", "Q", "R", "S", "T", "U", "V", "W", "X", "Y", "Z"}

Whitespace == {" ", "\n", "\t", "\r"}

\* the characters of the model in code point order (the order of Python's
\* str comparison)
CodePointOrder ==
  << "\t", "\n", "\r", " ", "\"", "#", "$", "%", "'", "(", ")", ",", "-", ".",
     "0", "1", "2", "3", "4", "5", "6", "7", "8", "9", ":", "@",
     "A", "B", "C", "D", "E", "F", "G", "H", "I", "J", "K", "L", "M",
     "N", "O", "P", "Q", "R", "S", "T", "U", "V", "W", "X", "Y", "Z",
     "[", "\\", "]", "_",
     "a", "b", "c", "d", "e", "f", "g", "h", "i", "j", "k", "l", "m",
     "n", "o", "p", "q", "r", "s", "t", "u", "v", "w", "x", "y", "z",
     "{", "|", "}", "Δ" >>

Ord(c) == CHOOSE i \in 1..Len(CodePointOrder) : CodePointOrder[i] = c

DigitVal(c) == Ord(c) - Ord("0")

DigitChar(d) == CodePointOrder[Ord("0") + d]

(***************************************************************************)
(* Python str operations                                                   *)
(***************************************************************************)
StartsWith(s, p) == Len(s) >= Len(p) /\ SubSeq(s, 1, Len(p)) = p

EndsWith(s, p) == Len(s) >= Len(p) /\ SubSeq(s, Len(s) - Len(p) + 1, Len(s)) = p

\* s[n:]
Drop(s, n) == SubSeq(s, n + 1, Len(s))

\* s[:-1]
DropLast(s) == SubSeq(s, 1, Len(s) - 1)

\* s.find(c) for a one-character c, 1-based; 0 when absent
Find(s, c) ==
  IF \E i \in 1..Len(s) : s[i] = c
  THEN CHOOSE i \in 1..Len(s) : s[i] = c /\ \A j \in 1..(i - 1) : s[j] # c
  ELSE 0

\* s.rfind(c) within s[:hi], 1-based; 0 when absent
RFindBefore(s, c, hi) ==
  IF \E i \in 1..hi : s[i] = c
  THEN CHOOSE i \in 1..hi : s[i] = c /\ \A j \in (i + 1)..hi : s[j] # c
  ELSE 0

RFind(s, c) == RFindBefore(s, c, Len(s))

\* c in s
Contains(s, c) == \E i \in 1..Len(s) : s[i] = c

\* s.split(c) for a one-character c
RECURSIVE Split(_, _)
Split(s, c) ==
  LET i == Find(s, c)
  IN IF i = 0 THEN <<s>>
     ELSE <<SubSeq(s, 1, i - 1)>> \o Split(Drop(s, i), c)

\* s.split(c, 1)
Split1(s, c) ==
  LET i == Find(s, c)
  IN IF i = 0 THEN <<s>> ELSE <<SubSeq(s, 1, i - 1), Drop(s, i)>>

\* sep.join(parts)
RECURSIVE Join(_, _)
Join(parts, sep) ==
  IF Len(parts) = 0 THEN <<>>
  ELSE IF Len(parts) = 1 THEN parts[1]
  ELSE parts[1] \o sep \o Join(Tail(parts), sep)

\* s.strip()
RECURSIVE LStrip(_)
LStrip(s) == IF Len(s) > 0 /\ s[1] \in Whitespace THEN LStrip(Tail(s)) ELSE s

RECURSIVE RStrip(_)
RStrip(s) ==
  IF Len(s) > 0 /\ s[Len(s)] \in Whitespace THEN RStrip(DropLast(s)) ELSE s

Strip(s) == RStrip(LStrip(s))

\* s.isdigit()
IsDigit(s) == Len(s) > 0 /\ \A i \in 1..Len(s) : s[i] \in Digits

\* str(n) for an int n
RECURSIVE NatToStr(_)
NatToStr(n) ==
  IF n < 10 THEN <<DigitChar(n)>>
  ELSE NatToStr(n \div 10) \o <<DigitChar(n % 10)>>

IntToStr(n) == IF n < 0 THEN <<"-">> \o NatToStr(-n) ELSE NatToStr(n)

\* int(s) for a string of digits
RECURSIVE DigitsToNat(_)
DigitsToNat(s) ==
  IF Len(s) = 0 THEN 0
  ELSE 10 * DigitsToNat(DropLast(s)) + DigitVal(s[Len(s)])

\* a < b in Python's str order
RECURSIVE StrLess(_, _)
StrLess(a, b) ==
  IF Len(b) = 0 THEN FALSE
  ELSE IF Len(a) = 0 THEN TRUE
  ELSE IF a[1] = b[1] THEN StrLess(Tail(a), Tail(b))
  ELSE Ord(a[1]) < Ord(b[1])

(***************************************************************************)
(* Python values                                                           *)
(***************************************************************************)
None == [t |-> "null", v |-> 0]

True == [t |-> "bool", v |-> 1]

False == [t |-> "bool", v |-> 0]

IntV(n) == [t |-> "int", v |-> n]

\* the float q/4
FloatV(q) == [t |-> "float", v |-> q]

StrV(s) == [t |-> "str", v |-> s]

ListV(l) == [t |-> "list", v |-> l]

DictV(entries) == [t |-> "dict", v |-> entries]

Error == [t |-> "error", v |-> 0]

\* the floats nan, inf and -inf
NonFinite(name) == [t |-> "nonfinite", v |-> name]

\* isinstance(x, (int, float)) and not isinstance(x, bool)
IsNum(x) == x.t \in {"int", "float", "nonfinite"}

\* the numeric value of a bool, int or float, in quarters
NumQ(x) == IF x.t = "float" THEN x.v ELSE 4 * x.v

\* bool(x)
Truthy(x) ==
  CASE x.t = "null" -> FALSE
    [] x.t \in {"bool", "int", "float"} -> x.v # 0
    [] x.t = "nonfinite" -> TRUE
    [] OTHER -> Len(x.v) > 0

\* d.keys() and d.get(k) of a dict given by its entries
Keys(entries) == {entries[i][1] : i \in 1..Len(entries)}

Get(entries, k) ==
  IF k \in Keys(entries)
  THEN entries[CHOOSE i \in 1..Len(entries) : entries[i][1] = k][2]
  ELSE None

\* x == y in Python: numbers and bools compare by value (1 == 1.0 == True),
\* nan equals nothing, lists elementwise, dicts as maps
RECURSIVE PyEq(_, _)
PyEq(x, y) ==
  CASE x.t \in {"bool", "int", "float"} ->
         y.t \in {"bool", "int", "float"} /\ NumQ(x) = NumQ(y)
    [] x.t = "nonfinite" -> y.t = "nonfinite" /\ x.v = y.v /\ x.v # "nan"
    [] x.t = "list" ->
         /\ y.t = "list"
         /\ Len(x.v) = Len(y.v)
         /\ \A i \in 1..Len(x.v) : PyEq(x.v[i], y.v[i])
    [] x.t = "dict" ->
         /\ y.t = "dict"
         /\ Keys(x.v) = Keys(y.v)
         /\ \A k \in Keys(x.v) : PyEq(Get(x.v, k), Get(y.v, k))
    [] OTHER -> x.t = y.t /\ x.v = y.v

\* str(x) of a float
FloatToStr(q) ==
  LET a == IF q < 0 THEN -q ELSE q
      frac == CASE a % 4 = 0 -> <<"0">>
                [] a % 4 = 1 -> <<"2", "5">>
                [] a % 4 = 2 -> <<"5">>
                [] OTHER -> <<"7", "5">>
  IN (IF q < 0 THEN <<"-">> ELSE <<>>) \o NatToStr(a \div 4) \o <<".">> \o frac

\* repr(s) of a str
RECURSIVE ReprEscape(_, _)
ReprEscape(s, q) ==
  IF Len(s) = 0 THEN <<>>
  ELSE (CASE s[1] = "\\" -> <<"\\", "\\">>
          [] s[1] = "\n" -> <<"\\", "n">>
          [] s[1] = "\t" -> <<"\\", "t">>
          [] s[1] = "\r" -> <<"\\", "r">>
          [] s[1] = q -> <<"\\", q>>
          [] OTHER -> <<s[1]>>) \o ReprEscape(Tail(s), q)

StrRepr(s) ==
  LET q == IF Contains(s, "'") /\ ~Contains(s, "\"") THEN "\"" ELSE "'"
  IN <<q>> \o ReprEscape(s, q) \o <<q>>

\* str(x) (top = TRUE) and repr(x) (top = FALSE)
\* str(x) of nan, inf and -inf
NonFiniteStr(name) ==
  CASE name = "nan" -> <<"n", "a", "n">>
    [] name = "inf" -> <<"i", "n", "f">>
    [] OTHER -> <<"-", "i", "n", "f">>

RECURSIVE PyStrOf(_, _)
PyStrOf(x, top) ==
  CASE x.t = "null" -> <<"N", "o", "n", "e">>
    [] x.t = "bool" ->
         IF x.v = 1 THEN <<"T", "r", "u", "e">> ELSE <<"F", "a", "l", "s", "e">>
    [] x.t = "int" -> IntToStr(x.v)
    [] x.t = "float" -> FloatToStr(x.v)
    [] x.t = "nonfinite" -> NonFiniteStr(x.v)
    [] x.t = "str" -> IF top THEN x.v ELSE StrRepr(x.v)
    [] x.t = "list" ->
         <<"[">>
         \o Join([i \in 1..Len(x.v) |-> PyStrOf(x.v[i], FALSE)], <<",", " ">>)
         \o <<"]">>
    [] OTHER ->
         <<"{">>
         \o Join([i \in 1..Len(x.v) |->
                    StrRepr(x.v[i][1]) \o <<":", " ">> \o PyStrOf(x.v[i][2], FALSE)],
                 <<",", " ">>)
         \o <<"}">>

PyStr(x) == PyStrOf(x, TRUE)

(***************************************************************************)
(* json.dumps / json.loads of a str, csv.reader of one line                *)
(***************************************************************************)
RECURSIVE JsonEscape(_)
JsonEscape(s) ==
  IF Len(s) = 0 THEN <<>>
  ELSE (CASE s[1] = "\"" -> <<"\\", "\"">>
          [] s[1] = "\\" -> <<"\\", "\\">>
          [] s[1] = "\n" -> <<"\\", "n">>
          [] s[1] = "\r" -> <<"\\", "r">>
          [] s[1] = "\t" -> <<"\\", "t">>
          [] s[1] = "Δ" -> <<"\\", "u", "0", "3", "9", "4">>
          [] OTHER -> <<s[1]>>) \o JsonEscape(Tail(s))

\* json.dumps(s, separators=(',', ':')) for a str s
JsonDumps(s) == <<"\"">> \o JsonEscape(s) \o <<"\"">>

\* the body of a JSON string literal, unescaped; an element "<err>" marks a
\* body that json.loads rejects
RECURSIVE JsonUnescape(_)
JsonUnescape(s) ==
  IF Len(s) = 0 THEN <<>>
  ELSE IF s[1] = "\"" \/ s[1] \in {"\n", "\t", "\r"} THEN <<"<err>">>
  ELSE IF s[1] = "\\" THEN
    IF Len(s) < 2 THEN <<"<err>">>
    ELSE IF s[2] \in {"\"", "\\"} THEN <<s[2]>> \o JsonUnescape(Drop(s, 2))
    ELSE IF s[2] = "n" THEN <<"\n">> \o JsonUnescape(Drop(s, 2))
    ELSE IF s[2] = "r" THEN <<"\r">> \o JsonUnescape(Drop(s, 2))
    ELSE IF s[2] = "t" THEN <<"\t">> \o JsonUnescape(Drop(s, 2))
    ELSE IF StartsWith(s, <<"\\", "u", "0", "3", "9", "4">>)
      THEN <<"Δ">> \o JsonUnescape(Drop(s, 6))
    ELSE <<"<err>">>
  ELSE <<s[1]>> \o JsonUnescape(Tail(s))

\* json.loads(val) for a val that starts and ends with a double quote:
\* the str, or Error when json.loads raises
JsonLoads(val) ==
  IF Len(val) < 2 THEN Error
  ELSE LET body == JsonUnescape(SubSeq(val, 2, Len(val) - 1))
       IN IF \E i \in 1..Len(body) : body[i] = "<err>" THEN Error ELSE StrV(body)

\* list(csv.reader([line]))[0] with the default (excel) dialect
RECURSIVE CsvScan(_, _, _, _)
CsvScan(state, field, fields, rest) ==
  IF Len(rest) = 0 THEN
    IF state = "start_record" THEN fields ELSE Append(fields, field)
  ELSE
    LET c == rest[1]
        r == Tail(rest)
    IN CASE state \in {"start_record", "start_field"} ->
              IF c = "\"" THEN CsvScan("in_quoted", field, fields, r)
              ELSE IF c = "," THEN CsvScan("start_field", <<>>, Append(fields, <<>>), r)
              ELSE CsvScan("in_field", <<c>>, fields, r)
         [] state = "in_field" ->
              IF c = "," THEN CsvScan("start_field", <<>>, Append(fields, field), r)
              ELSE CsvScan("in_field", Append(field, c), fields, r)
         [] state = "in_quoted" ->
              IF c = "\"" THEN CsvScan("quote_in_quoted", field, fields, r)
              ELSE CsvScan("in_quoted", Append(field, c), fields, r)
         [] OTHER ->
              IF c = "\"" THEN CsvScan("in_quoted", Append(field, c), fields, r)
              ELSE IF c = "," THEN CsvScan("start_field", <<>>, Append(fields, field), r)
              ELSE CsvScan("in_field", Append(field, c), fields, r)

CsvReader(line) == CsvScan("start_record", <<>>, <<>>, line)

(***************************************************************************)
(* int(s) and float(s)                                                     *)
(***************************************************************************)
\* digits, with single underscores allowed between digits
DigitGroup(s) ==
  /\ Len(s) > 0
  /\ s[1] \in Digits
  /\ s[Len(s)] \in Digits
  /\ \A i \in 1..Len(s) : s[i] \in Digits \cup {"_"}
  /\ \A i \in 1..(Len(s) - 1) : ~(s[i] = "_" /\ s[i + 1] = "_")

Unsigned(s) == IF Len(s) > 0 /\ s[1] = "-" THEN Tail(s) ELSE s

OnlyDigits(s) == SelectSeq(s, LAMBDA c : c \in Digits)

\* int(s) succeeds
IsIntLit(s) == DigitGroup(Unsigned(Strip(s)))

IntLitVal(s) ==
  LET b == Strip(s)
      n == DigitsToNat(OnlyDigits(Unsigned(b)))
  IN IF b[1] = "-" THEN -n ELSE n

RECURSIVE Pow10(_)
Pow10(k) == IF k = 0 THEN 1 ELSE 10 * Pow10(k - 1)

\* float(s) succeeds with a finite value, for the literals
\* <digits>[.[<digits>]] and .<digits> with an optional minus sign (the
\* strings of the model have no exponent form)
IsFloatLit(s) ==
  LET b == Unsigned(Strip(s))
      parts == Split(b, ".")
  IN \/ Len(parts) = 1 /\ DigitGroup(b)
     \/ /\ Len(parts) = 2
        /\ \/ DigitGroup(parts[1]) /\ (parts[2] = <<>> \/ DigitGroup(parts[2]))
           \/ parts[1] = <<>> /\ DigitGroup(parts[2])

\* float(s) in quarters; the fractions of the model are multiples of 0.25
FloatLitVal(s) ==
  LET b == Strip(s)
      parts == Split(Unsigned(b), ".")
      ip == DigitsToNat(OnlyDigits(parts[1]))
      fp == IF Len(parts) = 2 THEN OnlyDigits(parts[2]) ELSE <<>>
      q == 4 * ip + (4 * DigitsToNat(fp)) \div Pow10(Len(fp))
  IN IF b[1] = "-" THEN -q ELSE q

UpperOf(c) ==
  CASE c = "n" -> "N" [] c = "a" -> "A" [] c = "i" -> "I" [] c = "f" -> "F"
    [] c = "t" -> "T" [] c = "y" -> "Y" [] OTHER -> c

\* s spells the lower-case word w in any mix of cases
SpellsNoCase(s, w) ==
  Len(s) = Len(w) /\ \A i \in 1..Len(w) : s[i] \in {w[i], UpperOf(w[i])}

Signless(s) == IF Len(s) > 0 /\ s[1] \in {"-", "+"} THEN Tail(s) ELSE s

SpellsInf(s) ==
  \/ SpellsNoCase(s, <<"i", "n", "f">>)
  \/ SpellsNoCase(s, <<"i", "n", "f", "i", "n", "i", "t", "y">>)

\* float(s) succeeds with nan, inf or -inf
IsNonFiniteLit(s) ==
  SpellsNoCase(Signless(Strip(s)), <<"n", "a", "n">>) \/ SpellsInf(Signless(Strip(s)))

NonFiniteLitVal(s) ==
  IF ~SpellsInf(Signless(Strip(s))) THEN NonFinite("nan")
  ELSE IF Strip(s)[1] = "-" THEN NonFinite("-inf") ELSE NonFinite("inf")

(***************************************************************************)
(* encoder.py: packing; decoder.py: unpacking                              *)
(***************************************************************************)
SafeChars == Letters \cup Digits \cup {"_", "-", "."}

\* self._safe_str_re.match(s) for ^[a-zA-Z0-9_\-\.]+$ ; Python's $ also
\* matches before a trailing newline
SafeStrMatch(s) ==
  LET body == IF Len(s) > 0 /\ s[Len(s)] = "\n" THEN DropLast(s) ELSE s
  IN Len(body) > 0 /\ \A i \in 1..Len(body) : body[i] \in SafeChars

ReservedLiterals == {<<"n", "u", "l", "l">>, <<"T">>, <<"F">>}

PackStr(s, force_quote) ==
  IF Len(s) = 0 THEN <<"\"", "\"">>
  ELSE IF ~force_quote /\ SafeStrMatch(s) /\ s \notin ReservedLiterals THEN s
  ELSE JsonDumps(s)

\* _pack_str applied to a value that need not be a str, as the ENUM header
\* does: a falsy value gives '""', a truthy non-str raises TypeError in
\* re.match
PackStrRaises(x) == x.t # "str" /\ Truthy(x)

PackStrOf(x) ==
  IF x.t = "str" THEN PackStr(x.v, FALSE) ELSE <<"\"", "\"">>

PackValue(val) ==
  CASE val.t = "null" -> <<"n", "u", "l", "l">>
    [] val.t = "bool" -> IF val.v = 1 THEN <<"T">> ELSE <<"F">>
    [] val.t \in {"int", "float", "nonfinite"} ->
         LET s == PyStr(val)
         IN IF EndsWith(s, <<".", "0">>) THEN SubSeq(s, 1, Len(s) - 2) ELSE s
    [] OTHER -> PackStr(PyStr(val), FALSE)

Unpack(val) ==
  IF val = <<"n", "u", "l", "l">> THEN None
  ELSE IF val = <<"T">> THEN True
  ELSE IF val = <<"F">> THEN False
  ELSE IF /\ StartsWith(val, <<"\"">>)
          /\ EndsWith(val, <<"\"">>)
          /\ JsonLoads(val) # Error
    THEN JsonLoads(val)
  ELSE IF IsIntLit(val) THEN IntV(IntLitVal(val))
  ELSE IF IsFloatLit(val) THEN FloatV(FloatLitVal(val))
  ELSE IF IsNonFiniteLit(val) THEN NonFiniteLitVal(val)
  ELSE StrV(val)

(***************************************************************************)
(* dict operations, _flatten and _unflatten                                *)
(***************************************************************************)
\* d[k] = v : replaces in place or appends
DictSet(entries, k, v) ==
  IF k \in Keys(entries)
  THEN [i \in 1..Len(entries) |->
          IF entries[i][1] = k THEN <<k, v>> ELSE entries[i]]
  ELSE Append(entries, <<k, v>>)

\* dict(items)
RECURSIVE DictOfItems(_)
DictOfItems(items) ==
  IF Len(items) = 0 THEN <<>>
  ELSE LET last == items[Len(items)]
       IN DictSet(DictOfItems(DropLast(items)), last[1], last[2])

RECURSIVE FlattenItems(_, _)
FlattenItems(entries, parent_key) ==
  IF Len(entries) = 0 THEN <<>>
  ELSE
    LET k == entries[1][1]
        v == entries[1][2]
        new_key == IF Len(parent_key) > 0 THEN parent_key \o <<".">> \o k ELSE k
        here == IF v.t = "dict" /\ Len(v.v) > 0
                THEN DictOfItems(FlattenItems(v.v, new_key))
                ELSE << <<new_key, v>> >>
    IN here \o FlattenItems(Tail(entries), parent_key)

\* _flatten(d): the entries of the flat row of the dict with entries d
Flatten(d) == DictOfItems(FlattenItems(d, <<>>))

\* a value that is held by reference: the dict at address a of a heap, which
\* is a sequence of the entries of its dicts
Ref(a) == [t |-> "ref", v |-> a]

\* the depth of calls at which the interpreter raises RecursionError
RecursionLimit == 4

FlattenReturned(items) == [raised |-> FALSE, items |-> items]

FlattenRaised == [raised |-> TRUE, items |-> <<>>]

\* items.extend(here) followed by the rest of the loop
FlattenExtend(here, rest) ==
  IF here.raised \/ rest.raised THEN FlattenRaised
  ELSE FlattenReturned(here.items \o rest.items)

\* dict(items) of a call that returned
FlattenDict(r) == IF r.raised THEN r ELSE FlattenReturned(DictOfItems(r.items))

\* _flatten on dicts that are reached by reference: the loop over the
\* entries of one dict, at call depth depth; a dict that is reached again is
\* flattened again
RECURSIVE FlattenHeapItems(_, _, _, _)
FlattenHeapItems(heap, entries, parent_key, depth) ==
  IF depth > RecursionLimit THEN FlattenRaised
  ELSE IF Len(entries) = 0 THEN FlattenReturned(<<>>)
  ELSE
    LET k == entries[1][1]
        v == entries[1][2]
        new_key == IF Len(parent_key) > 0 THEN parent_key \o <<".">> \o k ELSE k
    IN FlattenExtend(
         IF v.t = "ref"
         THEN IF Len(heap[v.v]) > 0
              THEN FlattenDict(FlattenHeapItems(heap, heap[v.v], new_key, depth + 1))
              ELSE FlattenReturned(<< <<new_key, DictV(<<>>)>> >>)
         ELSE FlattenReturned(<< <<new_key, v>> >>),
         FlattenHeapItems(heap, Tail(entries), parent_key, depth))

\* _flatten(row) for the dict at address a
FlattenHeap(heap, a) == FlattenDict(FlattenHeapItems(heap, heap[a], <<>>, 1))

\* the dict reached from root along path
RECURSIVE AtPath(_, _)
AtPath(root, path) ==
  IF Len(path) = 0 THEN root ELSE AtPath(Get(root, path[1]).v, Tail(path))

\* root after t[k] = v for the dict t reached along path
RECURSIVE SetAtPath(_, _, _, _)
SetAtPath(root, path, k, v) ==
  IF Len(path) = 0 THEN DictSet(root, k, v)
  ELSE DictSet(root, path[1],
               DictV(SetAtPath(Get(root, path[1]).v, Tail(path), k, v)))

\* the loop over p[:-1] in _unflatten: t is the dict at path
RECURSIVE UnflattenWalk(_, _, _)
UnflattenWalk(root, path, segs) ==
  IF Len(segs) = 0 THEN [root |-> root, path |-> path]
  ELSE
    LET x == segs[1]
        t == AtPath(root, path)
    IN IF x \notin Keys(t)
       THEN UnflattenWalk(SetAtPath(root, path, x, DictV(<<>>)),
                          Append(path, x), Tail(segs))
       ELSE IF Get(t, x).t # "dict"
       THEN UnflattenWalk(root, path, Tail(segs))
       ELSE UnflattenWalk(root, Append(path, x), Tail(segs))

RECURSIVE UnflattenFrom(_, _)
UnflattenFrom(res, entries) ==
  IF Len(entries) = 0 THEN res
  ELSE
    LET p == Split(entries[1][1], ".")
        w == UnflattenWalk(res, <<>>, DropLast(p))
    IN UnflattenFrom(SetAtPath(w.root, w.path, p[Len(p)], entries[1][2]),
                     Tail(entries))

\* _unflatten(d)
Unflatten(entries) == UnflattenFrom(<<>>, entries)

(***************************************************************************)
(* constants.py                                                            *)
(***************************************************************************)
VERSION == <<"1", ".", "0", ".", "3">>

DEFAULT_ANCHOR_INTERVAL == 100

INLINE_THRESHOLD_ROWS == 0

DICT_REF_PREFIX == "%"

ANCHOR_PREFIX == "$"

REPEAT_SUFFIX == "x"

\* The header grammar constants are imported from zon.constants by encoder.py
\* and decoder.py but are not defined in the constants.py at hand. The
\* markers and rule keywords are those of the documented header
\* @VERSION:#dict:schema[N]{col:rule,...}:@K and rule grammar. The segment
\* separator is a character of its own: decoder.py splits the header on
\* SEPARATOR before it splits each column on ':', so the two cannot be the
\* same character in a header that decodes at all.
HEADER_PREFIX == <<"@">>

SEPARATOR == "|"

DICT_MARKER == <<"#">>

SCHEMA_START == "{"

SCHEMA_END == "}"

ANCHOR_MARKER == <<"@">>

SOLID_KEYWORD == <<"S">>

LIQUID_KEYWORD == <<"L">>

RANGE_KEYWORD == <<"R">>

PATTERN_KEYWORD == <<"P">>

MULT_KEYWORD == <<"M">>

ENUM_KEYWORD == <<"E">>

VALUE_KEYWORD == <<"V">>

DELTA_KEYWORD == <<"Δ">>

(***************************************************************************)
(* Python arithmetic on int and float values                               *)
(***************************************************************************)
\* a - b and a + b: an int when neither is a float, else a float
NumSub(a, b) ==
  IF a.t # "float" /\ b.t # "float" THEN IntV(a.v - b.v)
  ELSE FloatV(NumQ(a) - NumQ(b))

NumAdd(a, b) ==
  IF a.t # "float" /\ b.t # "float" THEN IntV(a.v + b.v)
  ELSE FloatV(NumQ(a) + NumQ(b))

\* a + i * b for an int i
NumAffine(a, i, b) ==
  IF a.t # "float" /\ b.t # "float" THEN IntV(a.v + i * b.v)
  ELSE FloatV(NumQ(a) + i * NumQ(b))

\* int(x): truncation toward zero
TruncInt(x) ==
  IF x.t = "float"
  THEN IF x.v < 0 THEN -((-x.v) \div 4) ELSE x.v \div 4
  ELSE x.v

\* float(s) of a header parameter, Error when float() raises
ToFloat(s) == IF IsFloatLit(s) THEN FloatV(FloatLitVal(s)) ELSE Error

\* '{:0<digits>d}'.format(n)
RECURSIVE ZeroPad(_, _)
ZeroPad(s, width) == IF Len(s) >= width THEN s ELSE ZeroPad(<<"0">> \o s, width)

FormatInt(n, digits) ==
  IF n < 0 THEN <<"-">> \o ZeroPad(NatToStr(-n), digits - 1)
  ELSE ZeroPad(NatToStr(n), digits)

(***************************************************************************)
(* encoder.py: _build_global_dict                                          *)
(***************************************************************************)
\* the values of a sequence of flat rows, row by row
ValueCells(rows) ==
  UNION {{<<i, j>> : j \in 1..Len(rows[i])} : i \in 1..Len(rows)}

\* the place of the cell c: after the cells of the rows before it and after
\* the cells before it in its row
CellPlace(cells, c) ==
  1 + Cardinality({d \in cells : d[1] < c[1] \/ (d[1] = c[1] /\ d[2] < c[2])})

ValuesAt(rows, cells) ==
  LET vals == [k \in 1..Cardinality(cells) |->
                 LET c == CHOOSE d \in cells : CellPlace(cells, d) = k
                 IN rows[c[1]][c[2]][2]]
  IN SubSeq(vals, 1, Len(vals))

AllValues(rows) == ValuesAt(rows, ValueCells(rows))

\* x and y are one key of a dict, Counter or set: x is y or x == y. A nan
\* is the same key as itself only; the lists of the model that hold a nan
\* have one row, so that two equal nan values are one object
SameKey(x, y) == x = y \/ PyEq(x, y)

\* the keys of a Counter or set fed with xs: one representative per key,
\* the first inserted, in insertion order
FirstIndices(xs) ==
  {i \in 1..Len(xs) : \A j \in 1..(i - 1) : ~SameKey(xs[j], xs[i])}

\* the k-th least member of a set of integers
NthOf(S, k) == CHOOSE i \in S : Cardinality({j \in S : j <= i}) = k

\* the members of xs at the indices idx, in order
AtIndices(xs, idx) ==
  LET picked == [k \in 1..Cardinality(idx) |-> xs[NthOf(idx, k)]]
  IN SubSeq(picked, 1, Len(picked))

FirstSeen(xs) == AtIndices(xs, FirstIndices(xs))

\* Counter(xs)[x]
Count(xs, x) == Cardinality({i \in 1..Len(xs) : SameKey(xs[i], x)})

\* list.sort(key=freq, reverse=True): stable, by non-increasing freq
Freqs(cands, xs) ==
  LET freq == [i \in 1..Len(cands) |-> Count(xs, cands[i])]
  IN SubSeq(freq, 1, Len(freq))

\* the place of candidate i: after every candidate of greater freq and
\* after the earlier candidates of the same freq
PlaceByFreq(freq, i) ==
  1 + Cardinality({j \in 1..Len(freq) :
                     freq[j] > freq[i] \/ (freq[j] = freq[i] /\ j < i)})

SortedByFreq(cands, freq) ==
  LET sorted == [k \in 1..Len(cands) |->
                   cands[CHOOSE i \in 1..Len(cands) : PlaceByFreq(freq, i) = k]]
  IN SubSeq(sorted, 1, Len(sorted))

SortByFreqDesc(cands, xs) == SortedByFreq(cands, Freqs(cands, xs))

DictLimit == 64

\* z_map with every candidate kept (candidates without the [:64] slice)
BuildGlobalDictUncut(flat_data) ==
  LET strs == SelectSeq(AllValues(flat_data), LAMBDA x : x.t = "str")
      cands == SelectSeq(FirstSeen(strs),
                 LAMBDA x : /\ Len(x.v) >= 3
                            /\ Count(strs, x) * (Len(x.v) - 2) > Len(x.v) + 5)
      sorted == SortByFreqDesc(cands, strs)
  IN [i \in 1..Len(sorted) |-> sorted[i].v]

\* z_map: the strings of the global dictionary, in order
BuildGlobalDict(flat_data) ==
  LET strs == SelectSeq(AllValues(flat_data), LAMBDA x : x.t = "str")
      cands == SelectSeq(FirstSeen(strs),
                 LAMBDA x : /\ Len(x.v) >= 3
                            /\ Count(strs, x) * (Len(x.v) - 2) > Len(x.v) + 5)
      sorted == SortByFreqDesc(cands, strs)
  IN [i \in 1..(IF Len(sorted) < DictLimit THEN Len(sorted) ELSE DictLimit) |->
        sorted[i].v]

\* z_map_inv[s] for a string s of z_map, 0-based
IndexOf(seq, x) == (CHOOSE i \in 1..Len(seq) : seq[i] = x) - 1

InSeq(seq, x) == \E i \in 1..Len(seq) : seq[i] = x

(***************************************************************************)
(* encoder.py: _detect_pattern and _analyze_columns                        *)
(***************************************************************************)
NoPattern ==
  [ok |-> FALSE, p |-> <<>>, digits |-> 0, s |-> <<>>, start |-> 0, step |-> 0]

\* re.search(r'(\d+)', s): 1-based start and end of the first run of digits
HasDigits(s) == \E i \in 1..Len(s) : s[i] \in Digits

DigitRunStart(s) ==
  CHOOSE i \in 1..Len(s) : s[i] \in Digits /\ \A j \in 1..(i - 1) : s[j] \notin Digits

DigitRunEnd(s) ==
  CHOOSE e \in DigitRunStart(s)..Len(s) :
    /\ \A j \in DigitRunStart(s)..e : s[j] \in Digits
    /\ (e = Len(s) \/ s[e + 1] \notin Digits)

FirstDigitRun(s) == SubSeq(s, DigitRunStart(s), DigitRunEnd(s))

\* tpl.format(n) for tpl = p + '{:0<digits>d}' + s
PatternText(pat, n) == pat.p \o FormatInt(n, pat.digits) \o pat.s

\* tpl itself
PatternTemplate(pat) ==
  pat.p \o <<"{", ":", "0">> \o NatToStr(pat.digits) \o <<"d", "}">> \o pat.s

\* _detect_pattern(vals), called with a str vals[0] and len(vals) > 1.
\* A brace in the prefix or suffix makes tpl.format raise or print a text
\* other than vals[0], so no pattern is detected.
DetectPattern(vals) ==
  IF ~Truthy(vals[1]) \/ ~Truthy(vals[2]) THEN NoPattern
  ELSE IF ~HasDigits(vals[1].v) THEN NoPattern
  ELSE IF vals[2].t # "str" \/ ~HasDigits(vals[2].v) THEN NoPattern
  ELSE
    LET v0 == vals[1].v
        start == DigitsToNat(FirstDigitRun(v0))
        pat == [ok |-> TRUE,
                p |-> SubSeq(v0, 1, DigitRunStart(v0) - 1),
                digits |-> Len(FirstDigitRun(v0)),
                s |-> Drop(v0, DigitRunEnd(v0)),
                start |-> start,
                step |-> DigitsToNat(FirstDigitRun(vals[2].v)) - start]
        checked == IF Len(vals) < 5 THEN Len(vals) ELSE 5
    IN IF \E i \in 1..Len(pat.p \o pat.s) : (pat.p \o pat.s)[i] \in {"{", "}"}
       THEN NoPattern
       ELSE IF \A i \in 1..checked :
                 /\ vals[i].t = "str"
                 /\ vals[i].v = PatternText(pat, pat.start + (i - 1) * pat.step)
       THEN pat
       ELSE NoPattern

\* sum(len(str(v)) for v in xs)
RECURSIVE SumStrLen(_)
SumStrLen(xs) ==
  IF Len(xs) = 0 THEN 0 ELSE Len(PyStr(xs[1])) + SumStrLen(Tail(xs))

\* sum(len(str(int(v))) for v in xs)
RECURSIVE SumIntStrLen(_)
SumIntStrLen(xs) ==
  IF Len(xs) = 0 THEN 0
  ELSE Len(IntToStr(TruncInt(xs[1]))) + SumIntStrLen(Tail(xs))

\* [vals[i] - vals[i-1] for i in range(1, len(vals))]
Diffs(vals) == [i \in 1..(Len(vals) - 1) |-> NumSub(vals[i + 1], vals[i])]

\* list(set(xs)) lists the distinct values in the iteration order of the
\* set, which for str values follows their per-process randomised hash:
\* order is the order this process gives them
OrderSet(unique, order) == SelectSeq(order, LAMBDA x : InSeq(unique, x))

\* [v for v in vals if v is not None and not isinstance(v, (list, dict))]
Hashable(vals) == SelectSeq(vals, LAMBDA x : x.t \notin {"null", "list", "dict"})

\* Counter(xs).most_common(1)[0][0]: the first inserted key of maximal count
MostCommon(xs) ==
  LET keys == FirstSeen(xs)
      best == CHOOSE i \in 1..Len(keys) :
                /\ \A j \in 1..Len(keys) : Count(xs, keys[j]) <= Count(xs, keys[i])
                /\ \A j \in 1..(i - 1) : Count(xs, keys[j]) < Count(xs, keys[i])
  IN keys[best]

\* the first strategy of least cost, as the successive `cost < best_cost`
\* tests leave it; SOLID when none applies
RECURSIVE Tournament(_, _)
Tournament(cands, best) ==
  IF Len(cands) = 0 THEN best
  ELSE IF cands[1].ok /\ (best.state = "SOLID" \/ cands[1].cost < best.cost)
    THEN Tournament(Tail(cands), cands[1])
  ELSE Tournament(Tail(cands), best)

\* col_defs[k] for the column with values vals. Costs are compared as the
\* code compares them; they are held as integers by scaling every cost
\* with den = 2 * (len(vals) - 1), the common denominator of 1.5 * len(vals)
\* and sum / len(diffs).
AnalyzeColumn(vals, order) ==
  LET n == Len(vals)
      den == IF n > 1 THEN 2 * (n - 1) ELSE 2
      allnums == \A i \in 1..n : IsNum(vals[i])
      base == [ok |-> FALSE, cost |-> 0, state |-> "SOLID", step |-> None,
               pat |-> NoPattern, enum_map |-> <<>>, default |-> None,
               vals |-> vals]
      \* Strategy 1: GAS_INT
      diffs == Diffs(vals)
      gas_int ==
        IF allnums /\ n > 1
           /\ Len(FirstSeen(diffs)) = 1 /\ NumQ(diffs[1]) # 0
        THEN [base EXCEPT !.ok = TRUE, !.state = "GAS_INT", !.step = diffs[1]]
        ELSE base
      \* Strategy 2: GAS_PAT
      pat == IF n > 1 /\ vals[1].t = "str" THEN DetectPattern(vals) ELSE NoPattern
      gas_pat ==
        IF pat.ok THEN [base EXCEPT !.ok = TRUE, !.state = "GAS_PAT", !.pat = pat]
        ELSE base
      \* Strategy 3: GAS_MULT; x * 100 is an integer for every float in
      \* quarters
      gas_mult ==
        IF allnums /\ n > 0 /\ \A i \in 1..n : vals[i].t = "float"
        THEN [base EXCEPT !.ok = TRUE, !.cost = 2 * den, !.state = "GAS_MULT"]
        ELSE base
      \* Strategy 4: ENUM
      hashable_vals == Hashable(vals)
      unique == FirstSeen(hashable_vals)
      total2 == 2 * SumStrLen(unique) + 3 * n
      enum ==
        IF Len(unique) < 16 /\ Len(unique) > 1
           /\ total2 < 2 * SumStrLen(vals)
        THEN [base EXCEPT !.ok = TRUE, !.cost = (total2 * den) \div 2,
                          !.state = "ENUM",
                          !.enum_map = OrderSet(unique, order)]
        ELSE base
      \* Strategy 5: VALUE
      most_common == MostCommon(hashable_vals)
      count == Count(hashable_vals, most_common)
      value ==
        IF n > 0 /\ Len(hashable_vals) > 0 /\ 5 * count > 3 * n
        THEN [base EXCEPT !.ok = TRUE,
                          !.cost = (n - count) * Len(PyStr(most_common)) * den,
                          !.state = "VALUE", !.default = most_common]
        ELSE base
      \* Strategy 6: DELTA
      sum_diff_len == SumIntStrLen(diffs)
      delta ==
        IF allnums /\ n > 1
           /\ sum_diff_len * n < (SumIntStrLen(vals) - n) * (n - 1)
        THEN [base EXCEPT !.ok = TRUE, !.cost = 2 * n * sum_diff_len,
                          !.state = "DELTA"]
        ELSE base
      \* Strategy 7: LIQUID; json.dumps tells apart exactly the values that
      \* differ in type or content
      u == Cardinality({vals[i] : i \in 1..n})
      repeats == Cardinality({i \in 2..n : PyEq(vals[i], vals[i - 1])})
      liquid ==
        IF n > 0 /\ 2 * u < n
        THEN [base EXCEPT !.ok = TRUE, !.cost = (n - repeats) * 5 * den,
                          !.state = "LIQUID"]
        ELSE base
  IN Tournament(<<gas_int, gas_pat, gas_mult, enum, value, delta, liquid>>, base)

(***************************************************************************)
(* encoder.py: encode                                                      *)
(***************************************************************************)
\* list(all_keys) left in descending order (a sort with the comparison
\* reversed)
RECURSIVE SortedKeysDescending(_)
SortedKeysDescending(ks) ==
  IF ks = {} THEN <<>>
  ELSE LET greatest == CHOOSE k \in ks : \A o \in ks \ {k} : StrLess(o, k)
       IN <<greatest>> \o SortedKeysDescending(ks \ {greatest})

\* sorted(list(all_keys))
RECURSIVE SortedKeys(_)
SortedKeys(ks) ==
  IF ks = {} THEN <<>>
  ELSE LET least == CHOOSE k \in ks : \A o \in ks \ {k} : StrLess(k, o)
       IN <<least>> \o SortedKeys(ks \ {least})

\* set().union(*(d.keys() for d in flat_data))
AllKeys(flat_data) == UNION {Keys(flat_data[i]) : i \in 1..Len(flat_data)}

\* _analyze_columns(data, keys)
AnalyzeColumns(flat_data, keys, order) ==
  [k \in {keys[j] : j \in 1..Len(keys)} |->
     AnalyzeColumn([i \in 1..Len(flat_data) |-> Get(flat_data[i], k)], order)]

\* the rule text of a column in the header
RuleText(meta) ==
  CASE meta.state = "GAS_INT" ->
         RANGE_KEYWORD \o <<"(">> \o PyStr(meta.vals[1]) \o <<",">>
         \o PyStr(meta.step) \o <<")">>
    [] meta.state = "GAS_PAT" ->
         PATTERN_KEYWORD \o <<"(">> \o PatternTemplate(meta.pat) \o <<",">>
         \o IntToStr(meta.pat.start) \o <<",">> \o IntToStr(meta.pat.step) \o <<")">>
    [] meta.state = "GAS_MULT" ->
         MULT_KEYWORD \o <<"(">> \o <<"1", "0", "0", ".", "0">> \o <<")">>
    [] meta.state = "LIQUID" -> LIQUID_KEYWORD
    [] meta.state = "ENUM" ->
         ENUM_KEYWORD \o <<"(">>
         \o Join([i \in 1..Len(meta.enum_map) |-> PackStrOf(meta.enum_map[i])], <<",">>)
         \o <<")">>
    [] meta.state = "VALUE" ->
         VALUE_KEYWORD \o <<"(">> \o PackValue(meta.default) \o <<")">>
    [] meta.state = "DELTA" ->
         DELTA_KEYWORD \o <<"(">> \o PyStr(meta.vals[1]) \o <<")">>
    [] OTHER -> SOLID_KEYWORD

\* the header line
HeaderLine(n, keys, col_defs, z_map, anchor_interval) ==
  LET schema_parts == [j \in 1..Len(keys) |->
                         keys[j] \o <<":">> \o RuleText(col_defs[keys[j]])]
      schema_def == <<"r", "o", "w", "s", "[">> \o NatToStr(n) \o <<"]">>
                    \o <<SCHEMA_START>> \o Join(schema_parts, <<",">>)
                    \o <<SCHEMA_END>>
      dict_str == IF Len(z_map) > 0
                  THEN DICT_MARKER
                       \o Join([j \in 1..Len(z_map) |-> PackStr(z_map[j], FALSE)], <<",">>)
                       \o <<SEPARATOR>>
                  ELSE <<>>
  IN HEADER_PREFIX \o VERSION \o <<SEPARATOR>> \o dict_str \o schema_def
     \o <<SEPARATOR>> \o ANCHOR_MARKER \o IntToStr(anchor_interval)

\* is_anchor computed as i % anchor_interval == 0
IsAnchorEveryKth(i, anchor_interval) == i % anchor_interval = 0

\* is_anchor for the row of 0-based index i
IsAnchor(i, anchor_interval) == (i + 1) % anchor_interval = 0 \/ i = 0

\* the value the rule of a GAS_INT column predicts at row i equals val
RangeMatch(meta, i, val) ==
  val.t \in {"bool", "int", "float"}
  /\ NumQ(val) = NumQ(NumAffine(meta.vals[1], i, meta.step))

PatternMatch(meta, i, val) ==
  val.t = "str" /\ val.v = PatternText(meta.pat, meta.pat.start + i * meta.pat.step)

\* the prediction test of one column in a row that is not an anchor
CellPredictable(meta, i, val, prev) ==
  CASE meta.state = "GAS_INT" -> RangeMatch(meta, i, val)
    [] meta.state = "GAS_PAT" -> PatternMatch(meta, i, val)
    [] meta.state = "LIQUID" -> PyEq(val, prev)
    [] meta.state = "VALUE" -> PyEq(val, meta.default)
    [] OTHER -> FALSE

\* `val in meta['enum_inv']` raises TypeError for an unhashable val
CellRaises(meta, val) == meta.state = "ENUM" /\ val.t \in {"list", "dict"}

EnumIndex(enum_map, val) ==
  (CHOOSE j \in 1..Len(enum_map) : PyEq(enum_map[j], val)) - 1

\* enc: the text of a written cell
CellText(meta, i, val, prev, z_map) ==
  IF meta.state = "GAS_MULT" /\ val.t # "null"
    THEN IntToStr(25 * val.v)
  ELSE IF meta.state = "ENUM" /\ \E j \in 1..Len(meta.enum_map) : PyEq(meta.enum_map[j], val)
    THEN IntToStr(EnumIndex(meta.enum_map, val))
  ELSE IF meta.state = "DELTA" /\ i > 0 /\ val.t # "null" /\ prev.t # "null"
    THEN IntToStr(TruncInt(NumSub(val, prev)))
  ELSE IF val.t = "str" /\ InSeq(z_map, val.v)
    THEN <<DICT_REF_PREFIX>> \o IntToStr(IndexOf(z_map, val.v))
  ELSE PackValue(val)

\* what is appended to line for one column of a written row
CellWritten(meta, i, val, prev, z_map, is_anchor) ==
  LET enc == CellText(meta, i, val, prev, z_map)
      match == \/ meta.state = "GAS_INT" /\ RangeMatch(meta, i, val)
               \/ meta.state = "LIQUID" /\ PyEq(val, prev)
               \/ meta.state = "VALUE" /\ PyEq(val, meta.default)
  IN IF is_anchor THEN enc ELSE IF match THEN <<>> ELSE enc

FlushDropped(st) == st.output

\* output after `if pending_rle > 0: output.append(f"{pending_rle}{REPEAT_SUFFIX}")`
Flush(st) ==
  IF st.pending > 0
  THEN Append(st.output, NatToStr(st.pending) \o <<REPEAT_SUFFIX>>)
  ELSE st.output

\* one iteration of `for i, row in enumerate(flat_data)`; st holds
\* prev_row_vals, pending_rle, output and whether an exception was raised
EncodeRow(st, i, row, keys, col_defs, z_map, anchor_interval) ==
  LET is_anchor == IsAnchor(i, anchor_interval)
      is_predictable ==
        /\ ~is_anchor
        /\ \A j \in 1..Len(keys) :
             CellPredictable(col_defs[keys[j]], i, Get(row, keys[j]), st.prev[keys[j]])
      line == [j \in 1..Len(keys) |->
                 CellWritten(col_defs[keys[j]], i, Get(row, keys[j]),
                             st.prev[keys[j]], z_map, is_anchor)]
      prefix == IF is_anchor
                THEN <<ANCHOR_PREFIX>> \o NatToStr(i + 1) \o <<":">>
                ELSE <<>>
  IN IF st.raised THEN st
     ELSE IF is_predictable THEN [st EXCEPT !.pending = st.pending + 1]
     ELSE IF \E j \in 1..Len(keys) : CellRaises(col_defs[keys[j]], Get(row, keys[j]))
       THEN [st EXCEPT !.raised = TRUE]
     ELSE [st EXCEPT !.pending = 0,
                     !.output = Append(Flush(st), prefix \o Join(line, <<",">>)),
                     !.written = Append(st.written,
                                        [i |-> i, keys |-> keys, line |-> line]),
                     !.prev = [k \in DOMAIN st.prev |-> Get(row, k)]]

RECURSIVE EncodeRows(_, _, _, _, _, _, _)
EncodeRows(st, i, flat_data, keys, col_defs, z_map, anchor_interval) ==
  IF i >= Len(flat_data) THEN st
  ELSE EncodeRows(EncodeRow(st, i, flat_data[i + 1], keys, col_defs, z_map,
                            anchor_interval),
                  i + 1, flat_data, keys, col_defs, z_map, anchor_interval)

\* _encode_inline(data)
EncodeInline(flat_data) ==
  Join([i \in 1..Len(flat_data) |->
          Join([j \in 1..Len(flat_data[i]) |->
                  flat_data[i][j][1] \o <<":">> \o PackValue(flat_data[i][j][2])],
               <<SEPARATOR>>)],
       <<"\n">>)

\* the result of a call of encode: raised, or the returned text together
\* with the locals keys and output and, for every written row, its index i
\* and its list line of cells over the keys
\* the result of a call of encode: the text with the locals it was built
\* from, or the class of the exception that left the call; the encode loop
\* raises TypeError only
Raised ==
  [raised |-> TRUE, exc |-> "TypeError", text |-> <<>>, keys |-> <<>>,
   output |-> <<>>, written |-> <<>>]

Returned(text, keys, output, written) ==
  [raised |-> FALSE, exc |-> "none", text |-> text, keys |-> keys,
   output |-> output, written |-> written]

EncodeReturnUnflushed(st, keys) ==
  IF st.raised THEN Raised
  ELSE Returned(Join(st.output, <<"\n">>), keys, st.output, st.written)

\* `return "\n".join(output)` after the final flush
EncodeReturn(st, keys) ==
  IF st.raised THEN Raised
  ELSE Returned(Join(Flush(st), <<"\n">>), keys, Flush(st), st.written)

\* the header and the row stream of encode, from its locals
EncodeStream(flat_data, keys, z_map, col_defs, anchor_interval) ==
  IF \E j \in 1..Len(keys) :
       /\ col_defs[keys[j]].state = "ENUM"
       /\ \E e \in 1..Len(col_defs[keys[j]].enum_map) :
            PackStrRaises(col_defs[keys[j]].enum_map[e])
    THEN Raised
  ELSE EncodeReturn(
         EncodeRows([prev |-> [k \in DOMAIN col_defs |-> None], pending |-> 0,
                     output |-> <<HeaderLine(Len(flat_data), keys, col_defs, z_map,
                                             anchor_interval)>>,
                     written |-> <<>>, raised |-> FALSE],
                    0, flat_data, keys, col_defs, z_map, anchor_interval),
         keys)

\* encode from `all_keys = ...` on, for the flat rows and their sorted keys
EncodeTable(flat_data, keys, anchor_interval, order) ==
  EncodeStream(flat_data, keys, BuildGlobalDict(flat_data),
               AnalyzeColumns(flat_data, keys, order), anchor_interval)

\* flat_data = [self._flatten(row) for row in data]
FlatData(data) == [i \in 1..Len(data) |-> Flatten(data[i])]

\* encode from the inline test on
EncodeFlat(flat_data, anchor_interval, order) ==
  IF Len(flat_data) <= INLINE_THRESHOLD_ROWS
    THEN Returned(EncodeInline(flat_data), <<>>, <<>>, <<>>)
  ELSE EncodeTable(flat_data, SortedKeys(AllKeys(flat_data)), anchor_interval, order)

\* ZonEncoder(anchor_interval).encode(data) in a process whose sets list
\* their values in the order `order`. data is the sequence of the rows'
\* entries.
Encode(data, anchor_interval, order) ==
  IF Len(data) = 0 THEN Returned(<<"[", "]">>, <<>>, <<>>, <<>>)
  ELSE EncodeFlat(FlatData(data), anchor_interval, order)

RecursionRaised == [Raised EXCEPT !.exc = "RecursionError"]

\* encode([row]) for the dict row at address 1 of heap, from the result of
\* _flatten(row) on
EncodeFlattened(flat, anchor_interval, order) ==
  IF flat.raised THEN RecursionRaised
  ELSE EncodeFlat(<<flat.items>>, anchor_interval, order)

EncodeHeap(heap, anchor_interval, order) ==
  EncodeFlattened(FlattenHeap(heap, 1), anchor_interval, order)

\* unique_vals of the columns that are given the ENUM rule
Elements(xs) == {xs[i] : i \in 1..Len(xs)}

EnumUniqueVals(col_defs) ==
  UNION {IF col_defs[k].state = "ENUM"
         THEN Elements(FirstSeen(Hashable(col_defs[k].vals)))
         ELSE {} : k \in DOMAIN col_defs}

AnalyzeFlat(flat_data) == AnalyzeColumns(flat_data, SortedKeys(AllKeys(flat_data)), <<>>)

\* the values whose set order decides the output: those of the ENUM columns
EnumValues(data) == EnumUniqueVals(AnalyzeFlat(FlatData(data)))

FlattenedEnumValues(flat) ==
  IF flat.raised THEN {} ELSE EnumUniqueVals(AnalyzeFlat(<<flat.items>>))

HeapEnumValues(heap) == FlattenedEnumValues(FlattenHeap(heap, 1))

\* the orders in which a process may list a set of values
SetOrders(S) ==
  {f \in [1..Cardinality(S) -> S] : \A x \in S : \E i \in 1..Cardinality(S) : f[i] = x}

(***************************************************************************)
(* decoder.py: _parse_rule and _calc_val                                   *)
(***************************************************************************)
\* s[a:b] with Python's 0-based, possibly negative, indices
PyIndex(n, a) ==
  IF a < 0 THEN (IF n + a < 0 THEN 0 ELSE n + a) ELSE (IF a > n THEN n ELSE a)

PySlice(s, a, b) ==
  LET lo == PyIndex(Len(s), a)
      hi == PyIndex(Len(s), b)
  IN IF lo < hi THEN SubSeq(s, lo + 1, hi) ELSE <<>>

\* v[len(KEYWORD)+1:-1]
RuleArgs(v, keyword) == PySlice(v, Len(keyword) + 1, -1)

\* int(s), Error when int() raises
ToInt(s) == IF IsIntLit(s) THEN IntV(IntLitVal(s)) ELSE Error

NoRule ==
  [type |-> "SOLID", start |-> None, step |-> None, tpl |-> <<>>,
   factor |-> None, enum_map |-> <<>>, default |-> None, base |-> None,
   raised |-> FALSE]

ParseRule(v) ==
  IF StartsWith(v, RANGE_KEYWORD) THEN
    LET p == Split(RuleArgs(v, RANGE_KEYWORD), ",")
        start == ToFloat(p[1])
        step == IF Len(p) > 1 THEN ToFloat(p[2]) ELSE Error
    IN [NoRule EXCEPT !.type = "RANGE", !.start = start, !.step = step,
                      !.raised = start = Error \/ step = Error]
  ELSE IF StartsWith(v, PATTERN_KEYWORD) THEN
    LET args == RuleArgs(v, PATTERN_KEYWORD)
        lc == RFind(args, ",") - 1
        slc == RFindBefore(args, ",", PyIndex(Len(args), lc)) - 1
        start == ToInt(PySlice(args, slc + 1, lc))
        step == ToInt(PySlice(args, lc + 1, Len(args)))
    IN [NoRule EXCEPT !.type = "PATTERN", !.tpl = PySlice(args, 0, slc),
                      !.start = start, !.step = step,
                      !.raised = start = Error \/ step = Error]
  ELSE IF StartsWith(v, MULT_KEYWORD) THEN
    LET factor == ToFloat(RuleArgs(v, MULT_KEYWORD))
    IN [NoRule EXCEPT !.type = "MULT", !.factor = factor, !.raised = factor = Error]
  ELSE IF StartsWith(v, ENUM_KEYWORD) THEN
    LET enum_vals == CsvReader(RuleArgs(v, ENUM_KEYWORD))
    IN [NoRule EXCEPT !.type = "ENUM",
                      !.enum_map = [i \in 1..Len(enum_vals) |-> Unpack(enum_vals[i])]]
  ELSE IF StartsWith(v, VALUE_KEYWORD) THEN
    [NoRule EXCEPT !.type = "VALUE", !.default = Unpack(RuleArgs(v, VALUE_KEYWORD))]
  ELSE IF StartsWith(v, DELTA_KEYWORD) THEN
    LET base == ToFloat(RuleArgs(v, DELTA_KEYWORD))
    IN [NoRule EXCEPT !.type = "DELTA", !.base = base, !.raised = base = Error]
  ELSE IF v = LIQUID_KEYWORD THEN [NoRule EXCEPT !.type = "LIQUID"]
  ELSE NoRule

\* the replacement field at the head of s ('{' ... '}'), formatted for n:
\* '{}' and '{:0<w>d}' are the field forms of the model; any other field,
\* and a second field (there is one argument), makes format raise
RECURSIVE FormatScan(_, _, _)
FormatScan(s, n, used) ==
  IF Len(s) = 0 THEN <<>>
  ELSE IF StartsWith(s, <<"{", "{">>) THEN <<"{">> \o FormatScan(Drop(s, 2), n, used)
  ELSE IF StartsWith(s, <<"}", "}">>) THEN <<"}">> \o FormatScan(Drop(s, 2), n, used)
  ELSE IF s[1] = "}" THEN <<"<err>">>
  ELSE IF s[1] = "{" THEN
    LET close == Find(s, "}")
        field == SubSeq(s, 2, close - 1)
        width == SubSeq(field, 3, Len(field) - 1)
    IN IF close = 0 \/ used THEN <<"<err>">>
       ELSE IF field = <<>> THEN IntToStr(n) \o FormatScan(Drop(s, close), n, TRUE)
       ELSE IF /\ Len(field) >= 4
               /\ SubSeq(field, 1, 2) = <<":", "0">>
               /\ field[Len(field)] = "d"
               /\ IsDigit(width)
         THEN FormatInt(n, DigitsToNat(width)) \o FormatScan(Drop(s, close), n, TRUE)
       ELSE <<"<err>">>
  ELSE <<s[1]>> \o FormatScan(Tail(s), n, used)

\* tpl.format(n): the str, or Error when format raises
Format(tpl, n) ==
  LET out == FormatScan(tpl, n, FALSE)
  IN IF \E i \in 1..Len(out) : out[i] = "<err>" THEN Error ELSE StrV(out)

\* _calc_val(rule, idx, prev)
CalcVal(rule, idx, prev) ==
  CASE rule.type = "RANGE" -> NumAffine(rule.start, idx, rule.step)
    [] rule.type = "PATTERN" -> Format(rule.tpl, rule.start.v + idx * rule.step.v)
    [] rule.type = "LIQUID" -> prev
    [] rule.type = "VALUE" -> rule.default
    [] OTHER -> prev

(***************************************************************************)
(* decoder.py: decode                                                      *)
(***************************************************************************)
\* re.split(r',(?![^(]*\))', inner): split at each comma that is not
\* followed by a ')' with no '(' in between
SplitsAt(s, j) ==
  /\ s[j] = ","
  /\ ~\E c \in (j + 1)..Len(s) :
        s[c] = ")" /\ \A q \in (j + 1)..(c - 1) : s[q] # "("

RECURSIVE SplitCols(_)
SplitCols(s) ==
  IF \E j \in 1..Len(s) : SplitsAt(s, j)
  THEN LET j == CHOOSE j \in 1..Len(s) :
                  SplitsAt(s, j) /\ \A i \in 1..(j - 1) : ~SplitsAt(s, i)
       IN <<SubSeq(s, 1, j - 1)>> \o SplitCols(Drop(s, j))
  ELSE <<s>>

\* the schema columns of one header part: its (key, rule) pairs in order
SchemaCols(p) ==
  LET inner == PySlice(p, Find(p, SCHEMA_START), RFind(p, SCHEMA_END) - 1)
      cols == SelectSeq(SplitCols(inner), LAMBDA c : Contains(c, ":"))
  IN [i \in 1..Len(cols) |->
        [k |-> Split1(cols[i], ":")[1], rule |-> ParseRule(Split1(cols[i], ":")[2])]]

\* the loop over the header parts: dict_map and the columns
RECURSIVE ParseHeader(_, _)
ParseHeader(parts, h) ==
  IF Len(parts) = 0 THEN h
  ELSE
    LET p == parts[1]
    IN IF StartsWith(p, DICT_MARKER)
         THEN ParseHeader(Tail(parts),
                          [h EXCEPT !.dict_map = CsvReader(Drop(p, Len(DICT_MARKER)))])
       ELSE IF Contains(p, SCHEMA_START)
         THEN ParseHeader(Tail(parts), [h EXCEPT !.cols = h.cols \o SchemaCols(p)])
       ELSE ParseHeader(Tail(parts), h)

\* headers[k]: the rule stored last for k
RuleOf(cols, k) ==
  cols[CHOOSE i \in 1..Len(cols) :
         cols[i].k = k /\ \A j \in (i + 1)..Len(cols) : cols[j].k # k].rule

\* re.sub(r'^\$\d+:', '', line)
StripAnchor(line) ==
  IF Len(line) > 0 /\ line[1] = "$" /\ HasDigits(Tail(line))
     /\ DigitRunStart(Tail(line)) = 1
     /\ DigitRunEnd(Tail(line)) < Len(Tail(line))
     /\ Tail(line)[DigitRunEnd(Tail(line)) + 1] = ":"
  THEN Drop(line, DigitRunEnd(Tail(line)) + 2)
  ELSE line

\* val / factor for a float factor, in quarters (the quotients of the model
\* are multiples of 0.25); Error for ZeroDivisionError
NumDiv(val, factor) ==
  IF NumQ(factor) = 0 THEN Error
  ELSE FloatV((4 * NumQ(val)) \div NumQ(factor))

\* the rule-specific transformation of an unpacked literal
ApplyRule(rule, val, curr, prev) ==
  IF rule.type = "MULT" /\ val.t \in {"bool", "int", "float"}
    THEN NumDiv(val, rule.factor)
  ELSE IF rule.type = "ENUM" /\ val.t \in {"bool", "int"}
    THEN IF 0 <= val.v /\ val.v < Len(rule.enum_map)
         THEN rule.enum_map[val.v + 1] ELSE val
  ELSE IF rule.type = "DELTA" /\ val.t \in {"bool", "int", "float"} /\ curr > 0
    THEN IF prev.t = "null" THEN NumAdd(rule.base, val)
         ELSE IF prev.t \in {"bool", "int", "float"} THEN NumAdd(prev, val)
         ELSE Error
  ELSE val

\* the value of one cell of a row line
CellValue(tok, rule, curr, prev, dict_map, is_anchor) ==
  IF tok = <<>> /\ ~is_anchor THEN CalcVal(rule, curr, prev)
  ELSE IF Len(tok) > 0 /\ tok[1] = DICT_REF_PREFIX /\ IsDigit(Tail(tok))
    THEN IF DigitsToNat(Tail(tok)) < Len(dict_map)
         THEN Unpack(dict_map[DigitsToNat(Tail(tok)) + 1])
         ELSE Error
  ELSE ApplyRule(rule, Unpack(tok), curr, prev)

\* the row built from the values vals of the columns, in order: row[k] = val
RECURSIVE RowOf(_, _)
RowOf(keys_order, vals) ==
  IF Len(keys_order) = 0 THEN <<>>
  ELSE DictSet(RowOf(DropLast(keys_order), DropLast(vals)),
               keys_order[Len(keys_order)], vals[Len(vals)])

\* prev_vals after the assignments prev_vals[k] = val, in order
PrevOf(keys_order, vals) ==
  [k \in {keys_order[i] : i \in 1..Len(keys_order)} |->
     vals[CHOOSE i \in 1..Len(keys_order) :
            keys_order[i] = k /\ \A j \in (i + 1)..Len(keys_order) : keys_order[j] # k]]

\* prev_vals[k] when column idx is reached: an earlier column of the same
\* name has already stored its value
PrevAt(st, keys_order, vals, idx) ==
  IF \E j \in 1..(idx - 1) : keys_order[j] = keys_order[idx]
  THEN vals[CHOOSE j \in 1..(idx - 1) :
              keys_order[j] = keys_order[idx]
              /\ \A i \in (j + 1)..(idx - 1) : keys_order[i] # keys_order[idx]]
  ELSE st.prev_vals[keys_order[idx]]

\* the values of one predicted row (a unit of a run-length line)
RECURSIVE PredictedVals(_, _, _, _)
PredictedVals(st, h, keys_order, n) ==
  IF n = 0 THEN <<>>
  ELSE LET before == PredictedVals(st, h, keys_order, n - 1)
       IN Append(before,
                 CalcVal(RuleOf(h.cols, keys_order[n]), Len(st.decoded),
                         PrevAt(st, keys_order, before, n)))

\* the values of one row line with tokens tokens
RECURSIVE WrittenVals(_, _, _, _, _, _)
WrittenVals(st, h, keys_order, tokens, is_anchor, n) ==
  IF n = 0 THEN <<>>
  ELSE LET before == WrittenVals(st, h, keys_order, tokens, is_anchor, n - 1)
       IN Append(before,
                 CellValue(tokens[n], RuleOf(h.cols, keys_order[n]), Len(st.decoded),
                           PrevAt(st, keys_order, before, n), h.dict_map, is_anchor))

HasError(vals) == \E i \in 1..Len(vals) : vals[i] = Error

\* st after appending the row with values vals
RowDecoded(st, keys_order, vals) ==
  IF HasError(vals) THEN [st EXCEPT !.raised = TRUE]
  ELSE [st EXCEPT !.decoded = Append(st.decoded, Unflatten(RowOf(keys_order, vals))),
                  !.prev_vals = PrevOf(keys_order, vals)]

\* count predicted rows
RECURSIVE Repeat(_, _, _, _)
Repeat(st, h, keys_order, count) ==
  IF count = 0 \/ st.raised THEN st
  ELSE Repeat(RowDecoded(st, keys_order,
                         PredictedVals(st, h, keys_order, Len(keys_order))),
              h, keys_order, count - 1)

\* one iteration of `for line in lines[1:]`
DecodeLine(st, h, keys_order, raw) ==
  LET line == Strip(raw)
      clean == StripAnchor(line)
      is_anchor == StartsWith(line, <<ANCHOR_PREFIX>>)
      toks == IF Len(clean) > 0 THEN CsvReader(clean) ELSE <<>>
      tokens == [i \in 1..(IF Len(toks) < Len(keys_order)
                           THEN Len(keys_order) ELSE Len(toks)) |->
                   IF i <= Len(toks) THEN toks[i] ELSE <<>>]
  IN IF st.raised \/ Len(line) = 0 THEN st
     ELSE IF EndsWith(line, <<REPEAT_SUFFIX>>) /\ IsDigit(DropLast(line))
       THEN Repeat(st, h, keys_order, DigitsToNat(DropLast(line)))
     ELSE RowDecoded(st, keys_order,
                     WrittenVals(st, h, keys_order, tokens, is_anchor, Len(keys_order)))

RECURSIVE DecodeLines(_, _, _, _)
DecodeLines(st, h, keys_order, lines) ==
  IF Len(lines) = 0 THEN st
  ELSE DecodeLines(DecodeLine(st, h, keys_order, lines[1]), h, keys_order, Tail(lines))

\* _decode_inline(lines)
InlineRow(l) ==
  LET ps == SelectSeq(Split(l, SEPARATOR), LAMBDA p : Contains(p, ":"))
  IN Unflatten(RowOf([i \in 1..Len(ps) |-> Split1(ps[i], ":")[1]],
                     [i \in 1..Len(ps) |-> Unpack(Split1(ps[i], ":")[2])]))

DecodeInline(lines) == [i \in 1..Len(lines) |-> InlineRow(lines[i])]

\* the result of a call of decode: the rows (each the entries of a dict), or
\* raised
Decoded(rows) == [raised |-> FALSE, rows |-> rows]

DecodeRaised == [raised |-> TRUE, rows |-> <<>>]

\* `return decoded`
DecodeReturn(st) == IF st.raised THEN DecodeRaised ELSE Decoded(st.decoded)

\* the loop over lines[1:] with the parsed header
DecodeRows(lines, h, keys_order) ==
  IF \E i \in 1..Len(h.cols) : h.cols[i].rule.raised THEN DecodeRaised
  ELSE DecodeReturn(
         DecodeLines([decoded |-> <<>>,
                      prev_vals |-> [k \in {keys_order[i] : i \in 1..Len(keys_order)}
                                       |-> None],
                      raised |-> FALSE],
                     h, keys_order, Tail(lines)))

\* keys_order
KeysOrder(h) == [i \in 1..Len(h.cols) |-> h.cols[i].k]

DecodeTable(lines, h) == DecodeRows(lines, h, KeysOrder(h))

\* decode from the test of the header prefix on
DecodeText(lines) ==
  IF ~StartsWith(lines[1], HEADER_PREFIX) THEN Decoded(DecodeInline(lines))
  ELSE DecodeTable(lines,
                   ParseHeader(Split(lines[1], SEPARATOR),
                               [dict_map |-> <<>>, cols |-> <<>>]))

\* ZonDecoder().decode(zon_str)
Decode(zon_str) ==
  IF Len(zon_str) = 0 THEN Decoded(<<>>)
  ELSE DecodeText(Split(Strip(zon_str), "\n"))

(***************************************************************************)
(* The inputs of the model                                                 *)
(***************************************************************************)
\* the dict {k: v} and the dict {k1: v1, k2: v2}
Row1(k, v) == << <<k, v>> >>

Row2(k1, v1, k2, v2) == << <<k1, v1>>, <<k2, v2>> >>

\* rows that are combined into lists of up to MaxRows rows
SmallRows ==
  { Row1(<<"a">>, StrV(<<"a", "b", "c", "d">>)),
    Row1(<<"a">>, StrV(<<"w", "x", "y", "z">>)),
    Row1(<<"a">>, None),
    Row1(<<"a">>, True),
    Row1(<<"a">>, False) }

\* rows that are combined into lists of up to MaxWideRows rows
WideRows ==
  { Row1(<<"a">>, StrV(<<"b">>)),
    Row1(<<"a">>, StrV(<<"2", "x">>)),
    Row1(<<"a">>, StrV(<<>>)),
    Row1(<<"a">>, StrV(<<"1", "2">>)),
    Row1(<<"a">>, StrV(<<"T">>)),
    Row1(<<"a">>, StrV(<<"x", "\"", "y">>)),
    Row1(<<"a">>, StrV(<<"x", ",", "y">>)),
    Row1(<<"a">>, IntV(1)),
    Row1(<<"a">>, IntV(2)),
    Row1(<<"b">>, IntV(2)),
    Row1(<<"a">>, ListV(<<IntV(1), IntV(2)>>)),
    Row1(<<"c">>, DictV(Row1(<<"d">>, IntV(1)))),
    Row2(<<"b">>, StrV(<<"x">>), <<"a">>, IntV(1)) }

\* further single lists: a DELTA column, a PATTERN column, a dictionary
\* string, two columns with runs, an ENUM column of strings, a column of
\* alternating booleans, strings and values that need quoting, non-finite
\* floats, seven equal rows, the numbers 100, 100.5, 103
Fixtures ==
  { << Row1(<<"a">>, StrV(<<"a", "b", "c", "d">>)), Row1(<<"a">>, StrV(<<"w", "x", "y", "z">>)),
       Row1(<<"a">>, StrV(<<"a", "b", "c", "d">>)), Row1(<<"a">>, StrV(<<"w", "x", "y", "z">>)) >>,
    << Row1(<<"a">>, True), Row1(<<"a">>, False), Row1(<<"a">>, True), Row1(<<"a">>, False) >>,
    << Row1(<<"a">>, IntV(100)), Row1(<<"a">>, IntV(101)), Row1(<<"a">>, IntV(103)) >>,
    << Row1(<<"a">>, IntV(5)), Row1(<<"a">>, IntV(3)), Row1(<<"a">>, IntV(1)) >>,
    << Row1(<<"x", ":", "y">>, IntV(1)), Row1(<<"x", ":", "y">>, IntV(2)) >>,
    << Row1(<<"a">>, StrV(<<"u", "1">>)), Row1(<<"a">>, StrV(<<"u", "2">>)),
       Row1(<<"a">>, StrV(<<"u", "3">>)) >>,
    << Row2(<<"a">>, StrV(<<"h", "e", "l", "l", "o">>), <<"b">>, StrV(<<"h", "e", "l", "l", "o">>)),
       Row2(<<"a">>, StrV(<<"h", "e", "l", "l", "o">>), <<"b">>, StrV(<<"h", "e", "l", "l", "o">>)),
       Row2(<<"a">>, StrV(<<"w">>), <<"b">>, StrV(<<"h", "e", "l", "l", "o">>)) >>,
    << Row2(<<"a">>, IntV(1), <<"b">>, StrV(<<"x">>)),
       Row2(<<"a">>, IntV(2), <<"b">>, StrV(<<"x">>)),
       Row2(<<"a">>, IntV(3), <<"b">>, StrV(<<"y">>)),
       Row2(<<"a">>, IntV(4), <<"b">>, StrV(<<"x">>)) >>,
    << Row1(<<"a">>, StrV(<<"x", "\\", "y">>)) >>,
    << Row1(<<"a">>, StrV(<<"x", ":", "y">>)) >>,
    << Row1(<<"a">>, StrV(<<"x", "\n", "y">>)) >>,
    << Row1(<<"a">>, StrV(<<"n", "u", "l", "l">>)) >>,
    << Row1(<<"a">>, StrV(<<"1", ".", "5">>)), Row1(<<"a">>, FloatV(6)) >>,
    << Row1(<<"a">>, DictV(<<>>)) >>,
    << Row1(<<"a">>, NonFinite("nan")) >>,
    << Row1(<<"a">>, NonFinite("inf")) >>,
    << Row1(<<"a">>, NonFinite("-inf")) >>,
    << Row2(<<"a">>, NonFinite("nan"), <<"b">>, StrV(<<"x">>)) >>,
    [i \in 1..7 |-> Row1(<<"a">>, StrV(<<"x">>))],
    << Row1(<<"a">>, IntV(100)), Row1(<<"a">>, FloatV(402)), Row1(<<"a">>, IntV(103)) >> }

\* the j-th of DictLimit + 1 strings of ten letters, j from 0
LongString(j) ==
  LET abc == <<"a", "b", "c", "d", "e", "f", "g", "h", "i">>
  IN <<"q", "q", "q", "q", "q", "q", "q", "q">> \o <<abc[(j \div 9) + 1], abc[(j % 9) + 1]>>

\* a column that holds DictLimit + 1 strings twice each and then string t
\* once more: more dictionary candidates than the dictionary keeps
ManyStrings(t) ==
  [i \in 1..(2 * (DictLimit + 1) + 1) |->
     Row1(<<"a">>, StrV(LongString(IF i > 2 * (DictLimit + 1) THEN t
                                   ELSE (i - 1) % (DictLimit + 1))))]

\* the lists of flat rows whose dictionary is built without encoding them
DictInputs == {ManyStrings(t) : t \in {0, DictLimit \div 2, DictLimit}}

MaxRows == 3

MaxWideRows == 2

MaxAnchorInterval == 3

SeqsUpTo(S, n) == UNION {[1..m -> S] : m \in 0..n}

Inputs == SeqsUpTo(SmallRows, MaxRows) \cup SeqsUpTo(WideRows, MaxWideRows) \cup Fixtures

AnchorIntervals == (1..MaxAnchorInterval) \cup {DEFAULT_ANCHOR_INTERVAL}

\* the text of a table: the header line that declares n rows with the schema,
\* then the lines
TableText(n, schema, lines) ==
  Join(<<HEADER_PREFIX \o VERSION \o <<SEPARATOR>> \o <<"r", "o", "w", "s", "[">>
         \o NatToStr(n) \o <<"]">> \o <<SCHEMA_START>> \o schema \o <<SCHEMA_END>>
         \o <<SEPARATOR>> \o ANCHOR_MARKER \o IntToStr(DEFAULT_ANCHOR_INTERVAL)>>
       \o lines, <<"\n">>)

\* schemas of one and two columns: plain names, names that collide when they
\* are unflattened, and the key names __proto__ and constructor.prototype
Schemas ==
  { <<"a", ":", "S">>,
    <<"a", ":", "S", ",", "b", ":", "S">>,
    <<"a", ":", "S", ",", "b", ":", "V", "(", "7", ")">>,
    <<"a", ":", "S", ",", "a", ".", "b", ":", "S">>,
    <<"a", ".", "b", ":", "S", ",", "a", ":", "S">>,
    <<"a", ":", "S", ",", "a", ".", "a", ":", "S">>,
    <<"_", "_", "p", "r", "o", "t", "o", "_", "_", ":", "S">>,
    <<"_", "_", "p", "r", "o", "t", "o", "_", "_", ".", "p", ":", "S">>,
    <<"c", "o", "n", "s", "t", "r", "u", "c", "t", "o", "r", ".",
      "p", "r", "o", "t", "o", "t", "y", "p", "e", ".", "p", ":", "S">> }

\* an anchor line and a row line of one and of two cells, and a run line
RowLines ==
  { <<"$", "1", ":", "1">>, <<"$", "1", ":", "1", ",", "2">>,
    <<"3">>, <<"3", ",", "4">>, <<"2", "x">> }

MaxDeclaredRows == 3

MaxLines == 2

\* inline texts: one line of key:value pairs
InlineTexts ==
  { <<"_", "_", "p", "r", "o", "t", "o", "_", "_", ":", "1">>,
    <<"a", ":", "1", "|", "a", ".", "b", ":", "2">>,
    <<"a", ".", "b", ":", "1", "|", "a", ":", "2">>,
    <<"a", ":", "x", "\n", "b", ":", "y">>,
    <<"a", ":", "1", "\n", "b", ":", "2">>,
    <<"a", ":", "T", "|", "b", ":", "n", "u", "l", "l", "\n", "c", ":", "x">> }

MaxObjects == 2

\* the dicts of a heap of n dicts: {next: d}, {v: 1}, {id: 1, next: d} and
\* {l: d, r: e} for dicts d, e of the heap
HeapObjects(n) ==
  {<< <<<<"n", "e", "x", "t">>, Ref(a)>> >> : a \in 1..n}
  \cup {<< <<<<"v">>, IntV(1)>> >>}
  \cup {<< <<<<"i", "d">>, IntV(1)>>, <<<<"n", "e", "x", "t">>, Ref(a)>> >> : a \in 1..n}
  \cup {<< <<<<"l">>, Ref(a)>>, <<<<"r">>, Ref(b)>> >> : a \in 1..n, b \in 1..n}

\* heaps of up to MaxObjects dicts; the row that is encoded is the dict at
\* address 1
Heaps == UNION {[1..n -> HeapObjects(n)] : n \in 1..MaxObjects}

Texts ==
  {TableText(n, schema, lines) :
     n \in 0..MaxDeclaredRows, schema \in Schemas, lines \in SeqsUpTo(RowLines, MaxLines)}
  \cup InlineTexts

(***************************************************************************)
(* The state machine: a list is encoded, encoded once more by another       *)
(* execution, the first text is decoded and the decoded list is encoded;   *)
(* or a text that no encoder wrote is decoded; or a list of one dict that   *)
(* refers to dicts, possibly to itself, is encoded; or the global           *)
(* dictionary of a long list is built.                                     *)
(***************************************************************************)
VARIABLES data, anchor_interval, zon_str, heap, pc, enc, enc2, dec, reenc,
          dec_crlf, flat_data, z_map

vars ==
  <<data, anchor_interval, zon_str, heap, pc, enc, enc2, dec, reenc, dec_crlf,
    flat_data, z_map>>

NotRun == Returned(<<>>, <<>>, <<>>, <<>>)

Init ==
  /\ \/ /\ data \in Inputs
        /\ anchor_interval \in AnchorIntervals
        /\ zon_str = <<>>
        /\ heap = <<>>
        /\ pc = "start"
     \/ /\ data = <<>>
        /\ anchor_interval = DEFAULT_ANCHOR_INTERVAL
        /\ zon_str \in Texts
        /\ heap = <<>>
        /\ pc = "given"
     \/ /\ data = <<>>
        /\ anchor_interval = DEFAULT_ANCHOR_INTERVAL
        /\ zon_str = <<>>
        /\ heap \in Heaps
        /\ pc = "graph"
     \/ /\ data = <<>>
        /\ anchor_interval = DEFAULT_ANCHOR_INTERVAL
        /\ zon_str = <<>>
        /\ heap = <<>>
        /\ pc = "long"
  /\ flat_data \in (IF pc = "long" THEN DictInputs ELSE {<<>>})
  /\ enc = NotRun
  /\ enc2 = NotRun
  /\ dec = Decoded(<<>>)
  /\ reenc = NotRun
  /\ dec_crlf = Decoded(<<>>)
  /\ z_map = <<>>

\* encode(data, anchor_every)
EncodeCall ==
  /\ pc = "start"
  /\ \E order \in SetOrders(EnumValues(data)) :
       enc' = Encode(data, anchor_interval, order)
  /\ pc' = "encoded"
  /\ UNCHANGED <<data, anchor_interval, zon_str, heap, enc2, dec, reenc, dec_crlf, flat_data, z_map>>

\* a second execution of encode(data, anchor_every)
EncodeAgain ==
  /\ pc = "encoded"
  /\ \E order \in SetOrders(EnumValues(data)) :
       enc2' = Encode(data, anchor_interval, order)
  /\ pc' = "encoded_twice"
  /\ UNCHANGED <<data, anchor_interval, zon_str, heap, enc, dec, reenc, dec_crlf, flat_data, z_map>>

\* decode(text) of the text the first execution returned
DecodeCall ==
  /\ pc = "encoded_twice"
  /\ ~enc.raised
  /\ dec' = Decode(enc.text)
  /\ pc' = "decoded"
  /\ UNCHANGED <<data, anchor_interval, zon_str, heap, enc, enc2, reenc, dec_crlf, flat_data, z_map>>

\* encode(decoded, anchor_every), as `zon format` does
Reencode ==
  /\ pc = "decoded"
  /\ ~dec.raised
  /\ \E order \in SetOrders(EnumValues(dec.rows)) :
       reenc' = Encode(dec.rows, anchor_interval, order)
  /\ pc' = "done"
  /\ UNCHANGED <<data, anchor_interval, zon_str, heap, enc, enc2, dec, dec_crlf, flat_data, z_map>>

\* decode(zon_str) of a given text
DecodeGiven ==
  /\ pc = "given"
  /\ dec' = Decode(zon_str)
  /\ pc' = "text_decoded"
  /\ UNCHANGED <<data, anchor_interval, zon_str, heap, enc, enc2, reenc, dec_crlf, flat_data, z_map>>

\* the text with every line feed preceded by a carriage return
RECURSIVE Crlf(_)
Crlf(s) ==
  IF Len(s) = 0 THEN <<>>
  ELSE (IF s[1] = "\n" THEN <<"\r", "\n">> ELSE <<s[1]>>) \o Crlf(Tail(s))

\* decode of the given text written with CRLF line ends
DecodeCrlf ==
  /\ pc = "text_decoded"
  /\ dec_crlf' = Decode(Crlf(zon_str))
  /\ pc' = "crlf_decoded"
  /\ UNCHANGED <<data, anchor_interval, zon_str, heap, enc, enc2, dec, reenc, flat_data, z_map>>

\* self._build_global_dict(flat_data) for a long list
BuildDict ==
  /\ pc = "long"
  /\ z_map' = BuildGlobalDict(flat_data)
  /\ pc' = "dict_built"
  /\ UNCHANGED <<data, anchor_interval, zon_str, heap, enc, enc2, dec, reenc, dec_crlf,
                 flat_data>>

\* encode([row]) of a dict that refers to dicts
EncodeGraph ==
  /\ pc = "graph"
  /\ \E order \in SetOrders(HeapEnumValues(heap)) :
       enc' = EncodeHeap(heap, anchor_interval, order)
  /\ pc' = "graph_encoded"
  /\ UNCHANGED <<data, anchor_interval, zon_str, heap, enc2, dec, reenc, dec_crlf, flat_data, z_map>>

Next ==
  \/ EncodeCall \/ EncodeAgain \/ DecodeCall \/ Reencode
  \/ DecodeGiven \/ DecodeCrlf \/ EncodeGraph \/ BuildDict

Spec == Init /\ [][Next]_vars

(***************************************************************************)
(* Properties                                                              *)
(***************************************************************************)
Decodes == pc \in {"decoded", "done"}

\* the dotted key paths of the leaves of a dict: a non-empty dict value is
\* descended into, anything else is a leaf
RECURSIVE DottedKeys(_, _)
DottedKeys(entries, prefix) ==
  UNION {LET k == entries[i][1]
             v == entries[i][2]
         IN IF v.t = "dict" /\ Len(v.v) > 0
            THEN DottedKeys(v.v, prefix \o k \o <<".">>)
            ELSE {prefix \o k} : i \in 1..Len(entries)}

\* the leaf cells of the input: row index and dotted key
Cells ==
  UNION {{<<i, k>> : k \in DottedKeys(data[i], <<>>)} : i \in 1..Len(data)}

InputLeaf(c) == Get(Flatten(data[c[1]]), c[2])

\* the decoded row c[1] holds the value x, of the same type, at the dotted
\* key c[2]
DecodedLeafIs(c, x) ==
  /\ ~dec.raised
  /\ c[1] <= Len(dec.rows)
  /\ c[2] \in DottedKeys(dec.rows[c[1]], <<>>)
  /\ Get(Flatten(dec.rows[c[1]]), c[2]) = x

\* C1: decode(encode(v, K)) == v for every list of maps v that encode
\* accepts and every anchor interval K.
C1_RoundTrip ==
  Decodes =>
    /\ ~dec.raised
    /\ Len(dec.rows) = Len(data)
    /\ \A i \in 1..Len(data) : PyEq(DictV(dec.rows[i]), DictV(data[i]))

\* C2: decoding the encoding of a non-empty list of N maps gives exactly N
\* rows.
C2_RowCountPreserved ==
  (Decodes /\ Len(data) > 0) => (~dec.raised /\ Len(dec.rows) = Len(data))

\* C3: two executions of encode on the same input and anchor interval
\* return the same text.
C3_Deterministic ==
  pc \notin {"start", "encoded"} =>
    (enc2.raised = enc.raised /\ enc2.text = enc.text)

\* the column names read from an emitted header line
HeaderColumnNames(header) ==
  KeysOrder(ParseHeader(Split(header, SEPARATOR), [dict_map |-> <<>>, cols |-> <<>>]))

\* the schema of the header line lists names[j..], each followed by ":",
\* the first right after the brace and the others after a comma, from
\* position from on
RECURSIVE SchemaLists(_, _, _, _)
SchemaLists(header, names, j, from) ==
  IF j > Len(names) THEN TRUE
  ELSE \E p \in from..Len(header) :
         /\ p > 1
         /\ header[p - 1] = (IF j = 1 THEN SCHEMA_START ELSE ",")
         /\ StartsWith(Drop(header, p - 1), names[j] \o <<":">>)
         /\ SchemaLists(header, names, j + 1, p + Len(names[j]) + 1)

\* a column name the header grammar reads back as written
PlainName(k) == \A c \in 1..Len(k) : k[c] \notin {":", ",", SEPARATOR, SCHEMA_START, SCHEMA_END}

\* C4: the column names of the emitted schema are the union of the dotted
\* keys of all rows, strictly ascending, and every row line has its cells in
\* that order.
C4_ColumnsSortedUnion ==
  (pc # "start" /\ ~enc.raised /\ Len(data) > 0) =>
    LET names == enc.keys
    IN /\ {names[j] : j \in 1..Len(names)}
            = UNION {DottedKeys(data[i], <<>>) : i \in 1..Len(data)}
       /\ \A j \in 1..(Len(names) - 1) : StrLess(names[j], names[j + 1])
       /\ SchemaLists(enc.output[1], names, 1, 1)
       /\ (\A j \in 1..Len(names) : PlainName(names[j]))
            => HeaderColumnNames(enc.output[1]) = names
       /\ \A w \in 1..Len(enc.written) :
            enc.written[w].keys = names /\ Len(enc.written[w].line) = Len(names)

\* a list whose first row names b before a has been encoded with the
\* columns a, b, and its rows were written
C4_Witness ==
  /\ pc = "encoded"
  /\ ~enc.raised
  /\ Len(data) = 2
  /\ data[1][1][1] = <<"b">>
  /\ HeaderColumnNames(enc.output[1]) = << <<"a">>, <<"b">> >>
  /\ Len(enc.written) = 2

\* a str that is a reserved literal or that int() or float() reads
Ambiguous(s) == s \in ReservedLiterals \/ IsIntLit(s) \/ IsFloatLit(s)

\* C5: a string cell that spells a reserved literal or a number decodes to
\* the same string, and a number or boolean cell decodes to a number or
\* boolean.
C5_StringTypePreserved ==
  Decodes =>
    \A c \in Cells :
      /\ (InputLeaf(c).t = "str" /\ Ambiguous(InputLeaf(c).v))
           => DecodedLeafIs(c, InputLeaf(c))
      /\ (InputLeaf(c).t \in {"int", "float"})
           => (~dec.raised /\ c[1] <= Len(dec.rows)
               /\ Get(Flatten(dec.rows[c[1]]), c[2]).t \in {"int", "float"})
      /\ (InputLeaf(c).t = "bool")
           => (~dec.raised /\ c[1] <= Len(dec.rows)
               /\ Get(Flatten(dec.rows[c[1]]), c[2]).t = "bool")

\* C6: a cell holding the empty string decodes as the empty string in every
\* row.
C6_EmptyStringCell ==
  Decodes =>
    \A c \in Cells :
      InputLeaf(c) = StrV(<<>>) => DecodedLeafIs(c, StrV(<<>>))

\* C7: each decoded row has exactly the dotted keys of its input row.
C7_KeySetsPreserved ==
  (Decodes /\ Len(data) > 0) =>
    /\ ~dec.raised
    /\ Len(dec.rows) = Len(data)
    /\ \A i \in 1..Len(data) :
         DottedKeys(dec.rows[i], <<>>) = DottedKeys(data[i], <<>>)

\* C8: a leaf that is a list decodes to an equal list.
C8_ListLeafPreserved ==
  Decodes =>
    \A c \in Cells :
      InputLeaf(c).t = "list" => DecodedLeafIs(c, InputLeaf(c))

\* s quoted by the documented rule: surrounded by double quotes, every
\* embedded double quote doubled
RECURSIVE DoubleQuotes(_)
DoubleQuotes(s) ==
  IF Len(s) = 0 THEN <<>>
  ELSE (IF s[1] = "\"" THEN <<"\"", "\"">> ELSE <<s[1]>>) \o DoubleQuotes(Tail(s))

QuoteDoubled(s) == <<"\"">> \o DoubleQuotes(s) \o <<"\"">>

NeedsQuotes(s) == \E i \in 1..Len(s) : s[i] \in {"\"", ",", ":", "\\", "\n"}

\* C9: a string with a double quote, comma, colon, backslash or newline is
\* packed in double quotes with its double quotes doubled, and the cell
\* tokeniser followed by unpack returns the string.
C9_QuotedStringRoundTrip ==
  Decodes =>
    \A c \in Cells :
      (InputLeaf(c).t = "str" /\ NeedsQuotes(InputLeaf(c).v)) =>
        /\ PackStr(InputLeaf(c).v, FALSE) = QuoteDoubled(InputLeaf(c).v)
        /\ CsvReader(PackStr(InputLeaf(c).v, FALSE)) # <<>>
        /\ Unpack(CsvReader(PackStr(InputLeaf(c).v, FALSE))[1]) = InputLeaf(c)
        /\ DecodedLeafIs(c, InputLeaf(c))

\* C10: encoding the decoded list again returns the text that was decoded.
C10_FixedPoint ==
  pc = "done" => (~reenc.raised /\ reenc.text = enc.text)

\* the lines of the first encoding after the header
RowStream == Tail(enc.output)

\* `$<i+1>:`
AnchorMark(i) == <<"$">> \o NatToStr(i + 1) \o <<":">>

\* the schedule as the format description gives it
AnchorDue(i) == i = 0 \/ (i + 1) % anchor_interval = 0

ColumnValue(i) == data[i][1][2]

SingleIntColumn ==
  /\ Len(data) >= 2
  /\ \A i \in 1..Len(data) :
       /\ Len(data[i]) = 1
       /\ data[i][1][1] = data[1][1][1]
       /\ ColumnValue(i).t = "int"

ColumnStep == ColumnValue(2).v - ColumnValue(1).v

ArithmeticColumn ==
  /\ SingleIntColumn
  /\ ColumnStep # 0
  /\ \A i \in 1..Len(data) : ColumnValue(i).v = ColumnValue(1).v + (i - 1) * ColumnStep

\* `<N>x`
RunLine(n) == NatToStr(n) \o <<"x">>

\* C12: the anchor lines are those of the rows of 0-based index 0, K, 2K,
\* ... (the 1-based rows 1, K+1, 2K+1, ...), and N = K fully predictable
\* rows are emitted as one anchor line followed by the single run `(N-1)x`.
C12_AnchorsAfterEveryK ==
  (pc # "start" /\ ~enc.raised /\ Len(data) > 0) =>
    /\ \A i \in 0..(Len(data) - 1) :
         (i % anchor_interval = 0) <=>
           \E l \in 1..Len(RowStream) : StartsWith(RowStream[l], AnchorMark(i))
    /\ (ArithmeticColumn /\ Len(data) = anchor_interval) =>
         (Len(RowStream) = 2 /\ RowStream[2] = RunLine(Len(data) - 1))

\* sub occurs in s
HasInfix(s, sub) ==
  \E k \in 1..(Len(s) - Len(sub) + 1) : SubSeq(s, k, k + Len(sub) - 1) = sub

\* C13: N rows (2 <= N < K) of one integer column v0 + i * step, step # 0,
\* are encoded as the header with the rule R(v0,step), the anchor line of
\* row 1 and the run line `(N-1)x`, and decode to N rows with the values
\* v0 + i * step.
C13_RangeColumn ==
  (pc # "start" /\ ArithmeticColumn /\ Len(data) < anchor_interval) =>
    /\ ~enc.raised
    /\ Len(enc.output) = 3
    /\ HasInfix(enc.output[1],
                data[1][1][1] \o <<":", "R", "(">> \o IntToStr(ColumnValue(1).v)
                \o <<",">> \o IntToStr(ColumnStep) \o <<")">>)
    /\ enc.output[2] = AnchorMark(0) \o IntToStr(ColumnValue(1).v)
    /\ enc.output[3] = RunLine(Len(data) - 1)
    /\ Decodes =>
         /\ ~dec.raised
         /\ Len(dec.rows) = Len(data)
         /\ \A i \in 1..Len(data) :
              /\ Len(dec.rows[i]) = 1
              /\ dec.rows[i][1][1] = data[1][1][1]
              /\ PyEq(dec.rows[i][1][2], ColumnValue(i))

\* every leaf under the entries is None, a bool, an int or a str
RECURSIVE ScalarLeaves(_)
ScalarLeaves(entries) ==
  \A i \in 1..Len(entries) :
    LET v == entries[i][2]
    IN IF v.t = "dict" THEN Len(v.v) > 0 /\ ScalarLeaves(v.v)
       ELSE v.t \in {"null", "bool", "int", "str"}

\* C14: encode returns a text for every non-empty list of maps whose leaves
\* are null, booleans, integers or strings, the columns for which the
\* analyser selects ENUM included.
C14_EncodeTotal ==
  (pc # "start" /\ Len(data) > 0 /\ \A i \in 1..Len(data) : ScalarLeaves(data[i]))
    => ~enc.raised

\* the lines of the given text, and whether it is a table
TextLines == Split(Strip(zon_str), "\n")

IsTableText == StartsWith(zon_str, HEADER_PREFIX)

TextDecoded == pc = "text_decoded" /\ IsTableText

\* the N of rows[N] in the header line of the given text
DeclaredRows ==
  DigitsToNat(SubSeq(TextLines[1], Find(TextLines[1], "[") + 1,
                     Find(TextLines[1], "]") - 1))

\* C17: a decode of a table that returns has reconstructed as many rows as
\* the header declares; a text whose lines reconstruct another number of
\* rows makes decode fail.
C17_StrictRowCount ==
  (TextDecoded /\ ~dec.raised) => Len(dec.rows) = DeclaredRows

TextColumns == HeaderColumnNames(TextLines[1])

IsRunLine(line) == EndsWith(line, <<REPEAT_SUFFIX>>) /\ IsDigit(DropLast(line))

\* the cells of a row line
LineCells(line) == CsvReader(StripAnchor(Strip(line)))

\* a row line with fewer cells than the schema has columns
ShortRowLine(line) ==
  /\ Len(Strip(line)) > 0
  /\ ~IsRunLine(Strip(line))
  /\ Len(LineCells(line)) < Len(TextColumns)

\* C18: decode fails on a table with a row line that carries fewer cells
\* than the schema has columns.
C18_StrictFieldCount ==
  (TextDecoded /\ \E l \in 2..Len(TextLines) : ShortRowLine(TextLines[l]))
    => dec.raised

PROTO == <<"_", "_", "p", "r", "o", "t", "o", "_", "_">>

CONSTRUCTOR == <<"c", "o", "n", "s", "t", "r", "u", "c", "t", "o", "r">>

PROTOTYPE == <<"p", "r", "o", "t", "o", "t", "y", "p", "e">>

\* no map under entries has the key __proto__ or the key path
\* constructor.prototype
RECURSIVE NoPrototypeKeys(_)
NoPrototypeKeys(entries) ==
  \A i \in 1..Len(entries) :
    LET k == entries[i][1]
        v == entries[i][2]
    IN /\ k # PROTO
       /\ v.t = "dict" =>
            /\ ~(k = CONSTRUCTOR /\ PROTOTYPE \in Keys(v.v))
            /\ NoPrototypeKeys(v.v)

\* C19: no map of a value that decode returns has the key __proto__ or the
\* key path constructor.prototype.
C19_NoPrototypeKeys ==
  ((pc = "text_decoded" \/ Decodes) /\ ~dec.raised) =>
    \A i \in 1..Len(dec.rows) : NoPrototypeKeys(dec.rows[i])

\* the segments of p are a proper prefix of the segments of q
DotPrefix(p, q) ==
  LET ps == Split(p, ".")
      qs == Split(q, ".")
  IN Len(ps) < Len(qs) /\ SubSeq(qs, 1, Len(ps)) = ps

\* column j is bound under the collision policy: no column bound before it
\* is a prefix of it, and it is not a prefix of one
RECURSIVE Bound(_, _)
Bound(names, j) ==
  ~\E i \in 1..(j - 1) :
     /\ Bound(names, i)
     /\ DotPrefix(names[i], names[j]) \/ DotPrefix(names[j], names[i])

\* the given table has one row line, with a cell for every column
OneFullRow ==
  /\ Len(TextLines) = 2
  /\ ~IsRunLine(TextLines[2])
  /\ Len(LineCells(TextLines[2])) >= Len(TextColumns)

\* C20: the dotted keys of every decoded row are the columns bound under the
\* collision policy (a leaf whose intermediate segment is bound to a non-map
\* is dropped at every level, a later shorter key does not replace a map),
\* and a bound column keeps the value of its own cell.
C20_UnflattenCollision ==
  (TextDecoded /\ ~dec.raised) =>
    /\ \A i \in 1..Len(dec.rows) :
         DottedKeys(dec.rows[i], <<>>)
           = {TextColumns[j] : j \in {c \in 1..Len(TextColumns) : Bound(TextColumns, c)}}
    /\ (OneFullRow /\ Len(dec.rows) = 1) =>
         \A j \in 1..Len(TextColumns) :
           Bound(TextColumns, j) =>
             /\ TextColumns[j] \in DottedKeys(dec.rows[1], <<>>)
             /\ Get(Flatten(dec.rows[1]), TextColumns[j]) = Unpack(LineCells(TextLines[2])[j])

\* the dicts a dict of the heap refers to
Succ(a) ==
  {heap[a][i][2].v : i \in {j \in 1..Len(heap[a]) : heap[a][j][2].t = "ref"}}

RECURSIVE ReachN(_, _)
ReachN(S, n) ==
  IF n = 0 THEN S ELSE ReachN(S \cup UNION {Succ(a) : a \in S}, n - 1)

\* the dicts reached from a along one reference or more
ReachFrom(a) == ReachN(Succ(a), Len(heap))

\* the encoded row contains a dict that contains itself
Cyclic == \E a \in {1} \cup ReachFrom(1) : a \in ReachFrom(a)

\* C15: encode of a row that contains itself, directly or through another
\* map, raises ZonEncodeError (circular reference detected).
C15_CircularReference ==
  (pc = "graph_encoded" /\ Cyclic) => (enc.raised /\ enc.exc = "ZonEncodeError")

NULL == <<"n", "u", "l", "l">>

\* the cell written for the input cell c
WrittenCell(c) ==
  LET w == CHOOSE w \in 1..Len(enc.written) : enc.written[w].i = c[1] - 1
  IN enc.written[w].line[IndexOf(enc.keys, c[2]) + 1]

\* C16: a leaf that is nan, inf or -inf is written as the token null, in the
\* row cell and in the rule of its column, and decodes to null.
C16_NonFiniteAsNull ==
  \A c \in Cells :
    InputLeaf(c).t = "nonfinite" =>
      /\ pc # "start" =>
           /\ ~enc.raised
           /\ \E w \in 1..Len(enc.written) : enc.written[w].i = c[1] - 1
           /\ WrittenCell(c) = NULL
           /\ ~HasInfix(enc.output[1], NonFiniteStr(InputLeaf(c).v))
      /\ Decodes => DecodedLeafIs(c, None)

\* a carriage return in a key or in a str value under the entries
RECURSIVE HasCarriageReturn(_)
HasCarriageReturn(entries) ==
  \E i \in 1..Len(entries) :
    \/ Contains(entries[i][1], "\r")
    \/ entries[i][2].t = "str" /\ Contains(entries[i][2].v, "\r")
    \/ entries[i][2].t = "dict" /\ HasCarriageReturn(entries[i][2].v)

\* C21: decoding a text with every LF replaced by CRLF returns the value
\* that decoding the text returns, and no carriage return is part of a
\* decoded key or value.
C21_CrlfAccepted ==
  pc = "crlf_decoded" =>
    /\ dec_crlf = dec
    /\ \A i \in 1..Len(dec_crlf.rows) : ~HasCarriageReturn(dec_crlf.rows[i])

\* the top-level strings of the flat rows, and how often each occurs
FlatRows == IF pc = "dict_built" THEN flat_data ELSE FlatData(data)

FlatCells ==
  UNION {{<<i, j>> : j \in 1..Len(FlatRows[i])} : i \in 1..Len(FlatRows)}

FlatStrings ==
  {FlatRows[c[1]][c[2]][2].v : c \in {x \in FlatCells : FlatRows[x[1]][x[2]][2].t = "str"}}

Occurrences(str) == Cardinality({c \in FlatCells : FlatRows[c[1]][c[2]][2] = StrV(str)})

\* a written cell that is a dictionary reference
IsDictRef(cell) == Len(cell) > 1 /\ cell[1] = DICT_REF_PREFIX /\ IsDigit(Tail(cell))

\* the dictionary built for the list: the one that BuildDict returned, or
\* the one that encode built
BuiltDict == IF pc = "dict_built" THEN z_map ELSE BuildGlobalDict(FlatRows)

C22_WitnessRef ==
  /\ pc = "encoded"
  /\ ~enc.raised
  /\ \E w \in 1..Len(enc.written) : IsDictRef(enc.written[w].line[1])

\* encode has returned the table form of a list of at least one row
TableEncoded ==
  /\ pc \in {"encoded", "encoded_twice", "decoded", "done"}
  /\ ~enc.raised
  /\ Len(data) > 0

\* the 0-based index of the first row after the w-th written row
AfterWritten(n) == IF n = 0 THEN 0 ELSE enc.written[n].i + 1

\* the rows between the written rows w - 1 and w, and after the last one
GapBefore(w) == enc.written[w].i - AfterWritten(w - 1)

TrailingGap == Len(data) - AfterWritten(Len(enc.written))

\* the line of the w-th written row
WrittenLine(w) ==
  (IF AnchorDue(enc.written[w].i) THEN AnchorMark(enc.written[w].i) ELSE <<>>)
  \o Join(enc.written[w].line, <<",">>)

\* a line that stands for the n rows from the 0-based index first on
Emitted(run, first, n, text) == [run |-> run, first |-> first, n |-> n, text |-> text]

RunOf(first, n) ==
  IF n > 0 THEN <<Emitted(TRUE, first, n, RunLine(n))>> ELSE <<>>

\* the lines for the rows up to the w-th written row: every gap as one run
\* line in front of the written row that ends it
RECURSIVE EmittedUpTo(_)
EmittedUpTo(w) ==
  IF w = 0 THEN <<>>
  ELSE EmittedUpTo(w - 1) \o RunOf(AfterWritten(w - 1), GapBefore(w))
       \o <<Emitted(FALSE, enc.written[w].i, 1, WrittenLine(w))>>

EmittedLines ==
  EmittedUpTo(Len(enc.written))
  \o RunOf(AfterWritten(Len(enc.written)), TrailingGap)

HeaderRows(header) ==
  DigitsToNat(SubSeq(header, Find(header, "[") + 1, Find(header, "]") - 1))

\* the sum of the counts of the run lines among the first m lines of the
\* row stream, read from their text
RECURSIVE RunTotal(_)
RunTotal(m) ==
  IF m = 0 THEN 0
  ELSE RunTotal(m - 1)
       + (IF EmittedLines[m].run THEN DigitsToNat(DropLast(RowStream[m])) ELSE 0)

WrittenLines == {l \in 1..Len(EmittedLines) : ~EmittedLines[l].run}

\* the lines that stand for the row of 0-based index i
LinesOf(i) ==
  {l \in 1..Len(EmittedLines) :
     EmittedLines[l].first <= i /\ i < EmittedLines[l].first + EmittedLines[l].n}

\* C30: in a table output for N >= 1 rows, the number of written row lines
\* plus the sum of the counts of the run lines is N, which is the row count
\* the header declares; the lines are in input row order and every row is
\* represented by exactly one written line or one unit of one run.
C30_RowAccounting ==
  TableEncoded =>
    /\ RowStream = [l \in 1..Len(EmittedLines) |-> EmittedLines[l].text]
    /\ Cardinality(WrittenLines) + RunTotal(Len(RowStream)) = Len(data)
    /\ HeaderRows(enc.output[1]) = Len(data)
    /\ \A i \in 0..(Len(data) - 1) : Cardinality(LinesOf(i)) = 1
    /\ \A l \in 2..Len(EmittedLines) :
         EmittedLines[l].first = EmittedLines[l - 1].first + EmittedLines[l - 1].n

\* seven rows in five lines: three written rows and runs of one, two and
\* one rows
C30_Witness ==
  /\ TableEncoded
  /\ Len(data) = 7
  /\ Cardinality(WrittenLines) = 3
  /\ RunTotal(Len(RowStream)) = 4
  /\ \E i \in 0..(Len(data) - 1) : \E l \in LinesOf(i) : EmittedLines[l].n = 2


\* the header of the first encoding as decode parses it
EncodedHeader ==
  ParseHeader(Split(enc.output[1], SEPARATOR), [dict_map |-> <<>>, cols |-> <<>>])

\* the decoder before the line of the row of 0-based index i, having
\* forgotten the values of the rows before it
Resynchronised(i) ==
  [decoded |-> SubSeq(dec.rows, 1, i),
   prev_vals |-> [k \in {KeysOrder(EncodedHeader)[j] :
                          j \in 1..Len(KeysOrder(EncodedHeader))} |-> None],
   raised |-> FALSE]

\* the row that the line of the w-th written row gives to such a decoder
DecodedAlone(w) ==
  DecodeLine(Resynchronised(enc.written[w].i), EncodedHeader,
             KeysOrder(EncodedHeader), WrittenLine(w))

\* the decoded text had one column per key, with the key as its name
ColumnsParsed ==
  /\ Decodes
  /\ ~dec.raised
  /\ Len(dec.rows) = Len(data)
  /\ KeysOrder(EncodedHeader) = enc.keys

\* C24: the values decoded for an anchor row depend on the header and on
\* the cells of its line only, not on the rows before it; every numeric
\* cell that the encoder writes in an anchor row of a DELTA column is the
\* literal of the row's value and not a difference.
C24_AnchorsResynchronise ==
  (TableEncoded /\ ColumnsParsed) =>
    \A w \in 1..Len(enc.written) :
      AnchorDue(enc.written[w].i) =>
        /\ ~DecodedAlone(w).raised
        /\ DecodedAlone(w).decoded[enc.written[w].i + 1] = dec.rows[enc.written[w].i + 1]
        /\ \A j \in 1..Len(enc.keys) :
             (/\ RuleOf(EncodedHeader.cols, enc.keys[j]).type = "DELTA"
              /\ Get(Flatten(data[enc.written[w].i + 1]), enc.keys[j]).t \in {"int", "float"})
             => enc.written[w].line[j]
                  = PackValue(Get(Flatten(data[enc.written[w].i + 1]), enc.keys[j]))


\* the columns to which the header of the first encoding gives the rule DELTA
DeltaColumns ==
  {j \in 1..Len(enc.keys) : RuleOf(EncodedHeader.cols, enc.keys[j]).type = "DELTA"}

\* C25: for every column to which the analyser assigns DELTA, the value
\* that the decoder reconstructs for each row equals the original value,
\* for integers and for non-integer numbers.
C25_DeltaLossless ==
  (TableEncoded /\ Decodes /\ KeysOrder(EncodedHeader) = enc.keys /\ DeltaColumns # {}) =>
    /\ ~dec.raised
    /\ Len(dec.rows) = Len(data)
    /\ \A i \in 1..Len(data) : \A j \in DeltaColumns :
         PyEq(Get(Flatten(dec.rows[i]), enc.keys[j]), Get(Flatten(data[i]), enc.keys[j]))


\* the dispatch of decode on a line of the row stream
ReadAsRun(line) == IsRunLine(Strip(line))

ReadAsAnchor(line) == ~ReadAsRun(line) /\ StartsWith(Strip(line), <<ANCHOR_PREFIX>>)

\* C27: the decoder reads a line of an encoder output as a run-length
\* marker exactly if the encoder emitted it as a flushed run, and as an
\* anchor row exactly if the encoder emitted it with the `$N:` prefix; a
\* written row whose only cell is digits followed by `x` is decoded as one
\* row.
C27_LineClassification ==
  TableEncoded =>
    /\ Len(RowStream) = Len(EmittedLines)
    /\ \A l \in 1..Len(RowStream) :
         /\ ReadAsRun(RowStream[l]) <=> EmittedLines[l].run
         /\ ReadAsAnchor(RowStream[l])
              <=> (~EmittedLines[l].run /\ AnchorDue(EmittedLines[l].first))
    /\ Decodes => (dec.raised \/ Len(dec.rows) = Len(data))


\* a key that is an identifier, hence without a dot
IdentifierKey(k) ==
  /\ Len(k) > 0
  /\ k[1] \in Letters \cup {"_"}
  /\ \A c \in 1..Len(k) : k[c] \in Letters \cup Digits \cup {"_"}

\* a non-empty string that is packed bare and unpacked to itself
BareString(val) ==
  /\ val.t = "str"
  /\ Len(val.v) > 0
  /\ PackValue(val) = val.v
  /\ Unpack(val.v) = val

\* at least one row, all rows with the same identifier keys and with bare
\* strings as values
PlainStringTable ==
  /\ Len(data) >= 1
  /\ \A i \in 1..Len(data) :
       /\ Len(data[i]) = Len(data[1])
       /\ \A j \in 1..Len(data[i]) :
            /\ data[i][j][1] = data[1][j][1]
            /\ IdentifierKey(data[i][j][1])
            /\ BareString(data[i][j][2])

\* C26: a list of N >= 1 maps with the same identifier keys and bare
\* non-empty strings as values decodes, after encoding with any anchor
\* interval K >= 1, to the same list, whichever rules and runs the encoder
\* selects.
C26_PlainStringTables ==
  (Decodes /\ PlainStringTable) =>
    /\ ~dec.raised
    /\ Len(dec.rows) = Len(data)
    /\ \A i \in 1..Len(data) : dec.rows[i] = data[i]


\* the parsed rule has the type and the parameters of the column's strategy
RuleAgrees(meta, rule) ==
  CASE meta.state = "GAS_INT" ->
         /\ rule.type = "RANGE"
         /\ PyEq(rule.start, meta.vals[1])
         /\ PyEq(rule.step, meta.step)
    [] meta.state = "GAS_PAT" ->
         /\ rule.type = "PATTERN"
         /\ rule.tpl = PatternTemplate(meta.pat)
         /\ rule.start = IntV(meta.pat.start)
         /\ rule.step = IntV(meta.pat.step)
    [] meta.state = "GAS_MULT" -> rule.type = "MULT" /\ PyEq(rule.factor, IntV(100))
    [] meta.state = "LIQUID" -> rule.type = "LIQUID"
    [] meta.state = "ENUM" -> rule.type = "ENUM" /\ rule.enum_map = meta.enum_map
    [] meta.state = "VALUE" -> rule.type = "VALUE" /\ rule.default = meta.default
    [] meta.state = "DELTA" -> rule.type = "DELTA" /\ PyEq(rule.base, meta.vals[1])
    [] OTHER -> rule.type = "SOLID"

\* the header that encode emitted is the one of col_defs and z_map, and its
\* parse gives back the keys, the rules and the dictionary
HeaderAgrees(keys, col_defs, dict) ==
  /\ enc.output[1] = HeaderLine(Len(data), keys, col_defs, dict, anchor_interval)
  /\ KeysOrder(EncodedHeader) = keys
  /\ \A j \in 1..Len(keys) : RuleAgrees(col_defs[keys[j]], EncodedHeader.cols[j].rule)
  /\ EncodedHeader.dict_map = dict

\* C28: the header parse of an emitted header line yields the column names
\* in order, each with the rule type and parameters of its column, and the
\* dictionary list in order, for any column names and string values.
C28_HeaderRoundTrip ==
  TableEncoded =>
    \E order \in SetOrders(EnumValues(data)) :
      HeaderAgrees(enc.keys, AnalyzeColumns(FlatData(data), enc.keys, order),
                   BuildGlobalDict(FlatData(data)))


\* C29: decode(encode([])) is the empty list, the value that decode returns
\* for the empty text.
C29_EmptyListRoundTrip ==
  (Decodes /\ data = <<>>) =>
    /\ ~dec.raised
    /\ dec.rows = <<>>
    /\ dec = Decode(<<>>)

====
